---- MODULE Spec2Model ----
(***************************************************************************)
(* Model of the armer motion supervisor (src/armer/robots/ROSRobot.py) and *)
(* of its trajectory executor (src/armer/trajectory.py).                   *)
(*                                                                         *)
(* Joint vectors are pairs of integers.  A position unit is 0.005 rad, so  *)
(* the executor's cutoff 0.01 is 2 units and its runaway bound 0.5 is 100  *)
(* units.  Time is counted in control ticks (dt = 1).                      *)
(*                                                                         *)
(* ROSRobot constructs TrajectoryExecutor(self, traj=..., cutoff=...)      *)
(* while the executor's __init__ takes (robot, traj) only.  The model      *)
(* takes the construction to succeed with the cutoff argument dropped, so  *)
(* that the executor paths of the handlers exist at all; is_finished then  *)
(* uses its own default cutoff.                                            *)
(*                                                                         *)
(* The control tick (ROSRobot.step) is one atomic action.  A request       *)
(* handler is cut at the points where it can block or spin: before         *)
(* "with self.lock", and at each wait loop.                                *)
(*                                                                         *)
(* Modelled handlers: velocity, joint velocity, servo, guarded velocity,   *)
(* pose, joint pose, named pose, home, step, pose tracking, tf-to-pose,    *)
(* recover, recover_move and the stop service.  named_pose_in_frame_cb is  *)
(* left out.                                                               *)
(*                                                                         *)
(* Other parts are modelled on their own, each with its own variable and   *)
(* specification: the gates of general_executor with the pose goal spelt   *)
(* out (req, SpecGate), the trajectory collision checker (walk, SpecWalk), *)
(* the collision scene with its dynamic objects, overlap lists, link       *)
(* queries and the description service (scene, SpecScene and SpecQuery),   *)
(* the ROS 2 timer that drives the tick (timer, SpecTimer), the            *)
(* nearest-neighbour query (kd, SpecKd), the named poses (named,           *)
(* SpecNamed), the window of safe states (safe, SpecSafe) and the window   *)
(* of links checked for collisions (sliced, SpecSliced), the ros_control   *)
(* calls made for a robot under hardware control (hw, SpecHw) and the      *)
(* trajectory move of the Armer class of armer.py (arm, SpecArm).  Two     *)
(* more specifications restrict the ones above: SpecRecover has the        *)
(* recovery actions arrive in ERROR only, SpecLoad has the scene changed   *)
(* by add, remove and load alone.                                          *)
(***************************************************************************)
EXTENDS Integers, Sequences, FiniteSets, TLC

VARIABLES
    executor,   \* ROSRobot.executor: the TrajectoryExecutor object, id "none" = None
    q,          \* ROSRobot.q: live joint positions (written by _state_cb)
    j_v,        \* ROSRobot.j_v: joint velocity command
    e_v,        \* ROSRobot.e_v: commanded Cartesian velocity
    mode,       \* ROSRobot._controller_mode
    preempted,  \* ROSRobot.preempted
    moving,     \* ROSRobot.moving
    flags,      \* singularity_approached / collision_approached
    lock,       \* ROSRobot.lock: "free", else the handler holding it
    age,        \* ticks elapsed since last_update (current_time - last_update)
    pc,         \* position of each request handler
    hist,       \* history: last operation; step() calls made on the executor,
                \* whether it was tracked exactly so far, whether abort() was called
    req,        \* the pose goal in service, as general_executor's checks see it
    walk,       \* trajectory_collision_checker: the trajectory given and its answer
    scene,      \* collision_dict, dynamic_collision_dict, overlapped_link_dict
    timer,      \* ArmerNode: last_time and the timer callbacks in progress
    kd,         \* query_kd_nn_collision_tree: the links placed, the query, its answer
    named,      \* named_poses and the answer to the last named-pose request
    safe,       \* q_safe_window and q_safe_window_p
    sliced,     \* collision_sliced_links and the bounds it was cut with
    hw,         \* controller_type and the ros_control calls of general_executor
    arm         \* Armer (armer.py): preempted, moving and its trajectory move

vars == <<executor, q, j_v, e_v, mode, preempted, moving, flags, lock, age, pc, hist,
          req, walk, scene, timer, kd, named, safe, sliced, hw, arm>>
partVars == <<kd, named, safe, sliced, hw, arm>>
otherVars == <<req, walk, scene, timer, partVars>>
supVars == <<e_v, mode, preempted, moving, flags, lock, age, pc>>

----------------------------------------------------------------------------
(* Bounds of the model *)
MaxLen == 3        \* longest trajectory (samples) the executor is given
MaxT == 2          \* longest duration (ticks) of a time-parameterised trajectory
NH == 2            \* request handlers in flight at once

(* Program constants, in model units *)
StepCutoff == 2    \* trajectory.py:39   is_finished(cutoff=0.01) inside step
DefaultCutoff == 2 \* trajectory.py:92   is_finished default cutoff 0.01
TrackCutoff == 1   \* ROSRobot.py:1051   msg_pose_threshold = 0.005
MaxDelta == 100    \* trajectory.py:71   runaway bound 0.5

DT == 1
Far == MaxDelta + 50
Zero == <<0, 0>>
Ones == <<1, 1>>

Abs(x) == IF x < 0 THEN -x ELSE x
Min(a, b) == IF a < b THEN a ELSE b
VSub(a, b) == [i \in DOMAIN a |-> a[i] - b[i]]
VecAbsMax(v) == CHOOSE m \in {Abs(v[i]) : i \in DOMAIN v} :
                    \A i \in DOMAIN v : Abs(v[i]) <= m

----------------------------------------------------------------------------
(* TrajectoryExecutor (src/armer/trajectory.py) *)

EmptyTraj == [s |-> <<>>, sd |-> <<>>, t |-> 0, istime |-> FALSE]
NoExecutor == [id |-> "none", traj |-> EmptyTraj, time_step |-> 0,
               finished |-> FALSE, success |-> FALSE]

\* __init__: a fresh executor over traj; id stands for the object's identity
TrajectoryExecutor(traj, id) ==
    [id |-> id, traj |-> traj, time_step |-> 0,
     finished |-> FALSE, success |-> FALSE]

WithinGoal_AnyJoint(goal, rq, cutoff) ==
    \E i \in DOMAIN goal : Abs(goal[i] - rq[i]) < cutoff

\* np.all(np.fabs(traj.s[-1] - robot.q) < cutoff)
WithinGoal(goal, rq, cutoff) ==
    \A i \in DOMAIN goal : Abs(goal[i] - rq[i]) < cutoff

\* len(traj.s) < 2 or the final sample is within cutoff of robot.q
TooClose(ex, rq, cutoff) ==
    \/ Len(ex.traj.s) < 2
    \/ WithinGoal(ex.traj.s[Len(ex.traj.s)], rq, cutoff)

\* time_step >= traj.t - (1 if not traj.istime else 0)
TimedOut(ex) ==
    ex.time_step >= ex.traj.t - (IF ~ex.traj.istime THEN 1 ELSE 0)

\* is_finished(cutoff): the executor after the call; the call returns .finished
is_finished(ex, rq, cutoff) ==
    IF ex.finished THEN ex
    ELSE LET e1 == IF TooClose(ex, rq, cutoff)
                   THEN [ex EXCEPT !.finished = TRUE, !.success = TRUE]
                   ELSE ex
         IN  IF TimedOut(e1)
             THEN [e1 EXCEPT !.finished = TRUE, !.success = TRUE]
             ELSE e1

is_succeeded(ex) == ex.success

abort_KeepSuccess(ex) == [ex EXCEPT !.finished = TRUE]

\* abort()
abort(ex) == [ex EXCEPT !.finished = TRUE, !.success = FALSE]

\* scipy interp1d over linspace(0, 1, len(samples)), evaluated at time_step / t
Interp(samples, ts, t) ==
    LET n   == Len(samples)
        num == ts * (n - 1)
        i   == num \div t
        r   == num % t
    IN  IF r = 0 THEN samples[i + 1]
        ELSE [k \in DOMAIN samples[i + 1] |->
                samples[i + 1][k]
                  + ((samples[i + 2][k] - samples[i + 1][k]) * r) \div t]

\* required joint position / velocity at the current progress point
ReqJp(ex) == IF ex.traj.istime
             THEN Interp(ex.traj.s, ex.time_step, ex.traj.t)
             ELSE ex.traj.s[ex.time_step + 1]
ReqJv(ex) == IF ex.traj.istime
             THEN Interp(ex.traj.sd, ex.time_step, ex.traj.t)
             ELSE ex.traj.sd[ex.time_step + 1]

Runaway_Never(req_jp, current_jp) == FALSE

\* np.any(np.max(np.fabs(erro_jp)) > 0.5)
Runaway(req_jp, current_jp) == VecAbsMax(VSub(req_jp, current_jp)) > MaxDelta

Advance_Stuck(ex, dt) == ex

\* time_step += dt if traj.istime else 1
Advance(ex, dt) ==
    [ex EXCEPT !.time_step = @ + (IF ex.traj.istime THEN dt ELSE 1)]

\* the same without the early return of a finished executor
step_AdvanceFinished(ex, rq, dt) ==
    LET e0 == is_finished(ex, rq, StepCutoff)
    IN  IF e0.finished THEN [ex |-> Advance(e0, dt), out |-> Zero]
        ELSE LET e1 == IF Runaway(ReqJp(e0), rq)
                       THEN [e0 EXCEPT !.finished = TRUE]
                       ELSE e0
             IN  [ex |-> Advance(e1, dt), out |-> ReqJv(e0)]

\* step(dt): [ex |-> the executor after the call, out |-> the returned velocity].
\* corr_jv = current_jv + (req_jv - current_jv) is the required velocity.
step(ex, rq, dt) ==
    LET e0 == is_finished(ex, rq, StepCutoff)
    IN  IF e0.finished THEN [ex |-> e0, out |-> Zero]
        ELSE LET e1 == IF Runaway(ReqJp(e0), rq)
                       THEN [e0 EXCEPT !.finished = TRUE]
                       ELSE e0
             IN  [ex |-> Advance(e1, dt), out |-> ReqJv(e0)]

----------------------------------------------------------------------------
(* ROSRobot: the supervisor's helpers (src/armer/robots/ROSRobot.py) *)

StaleTicks == 1    \* ROSRobot.py:3583  staleness window 0.1 s, in ticks
EvThresh == 6      \* ROSRobot.py:3585  0.0001, in velocity units
AgeMax == StaleTicks + 1

\* the request handlers, one thread each (action server, subscriber, service)
Kinds == {"velocity", "joint_velocity", "servo", "guarded_velocity", "pose",
          "joint_pose", "named_pose", "home", "recover", "recover_move",
          "step", "pose_tracker", "tf_to_pose"}

\* the supervisor's fields that the helpers read and write
Cur == [executor |-> executor, j_v |-> j_v, e_v |-> e_v, mode |-> mode,
        preempted |-> preempted, moving |-> moving, flags |-> flags, age |-> age]

Set(st) ==
    /\ executor' = st.executor
    /\ j_v' = st.j_v
    /\ e_v' = st.e_v
    /\ mode' = st.mode
    /\ preempted' = st.preempted
    /\ moving' = st.moving
    /\ flags' = st.flags
    /\ age' = st.age

\* current_time - last_update > 0.1
Stale(st) == st.age > StaleTicks

\* last_update = rospy.get_time()
Refresh(st) == [st EXCEPT !.age = 0]

\* if self.executor: self.executor.abort()
AbortExecutor(ex) == IF ex.id # "none" THEN abort(ex) ELSE ex

preempt_NoError(st) ==
    [st EXCEPT !.executor = AbortExecutor(@),
               !.flags = [singularity_approached |-> FALSE,
                          collision_approached |-> FALSE],
               !.preempted = TRUE,
               !.age = AgeMax]

\* preempt(): abort, clear the warning flags, preempted, ERROR, last_update = 0
preempt(st) ==
    [st EXCEPT !.executor = AbortExecutor(@),
               !.flags = [singularity_approached |-> FALSE,
                          collision_approached |-> FALSE],
               !.preempted = TRUE,
               !.mode = "ERROR",
               !.age = AgeMax]

\* preempt_tracking() / preempt_other(): as preempt, but back to JOINTS
preempt_tracking(st) ==
    [st EXCEPT !.executor = AbortExecutor(@),
               !.flags.singularity_approached = FALSE,
               !.preempted = TRUE,
               !.mode = "JOINTS",
               !.age = AgeMax]

preempt_other(st) == preempt_tracking(st)

\* manipulability(q) <= singularity_thresh: the configurations at a singularity
SingularQs == {<<Far, 0>>}
SingularAt(qq) == qq \in SingularQs

\* check_singularity(q): the returned value, and the supervisor after the call
SingularityFound(st, qq) == SingularAt(qq) /\ ~st.preempted
check_singularity(st, qq) ==
    [st EXCEPT !.flags.singularity_approached = SingularityFound(st, qq)]

vel_move_KeepMode(st, v) == Refresh([st EXCEPT !.e_v = v])

\* __vel_move(twist): e_v = twist, CARTESIAN, last_update = now
vel_move(st, v) == Refresh([st EXCEPT !.e_v = v, !.mode = "CARTESIAN"])

\* x * 0.9, rounded to the nearest representable value
Scale09(x) == IF x < 0 THEN -((-x * 9 + 5) \div 10) ELSE (x * 9 + 5) \div 10

DecayEv_NoFloor(v) == Scale09(v)

\* e_v *= 0.9 if np.sum(np.absolute(e_v)) >= 0.0001 else 0
DecayEv(v) == IF Abs(v) >= EvThresh THEN Scale09(v) ELSE 0

\* [v * 0.9 if np.absolute(v) > 0 else 0 for v in j_v]
DecayJv(jv) == [i \in DOMAIN jv |-> IF Abs(jv[i]) > 0 THEN Scale09(jv[i]) ELSE 0]

\* j_v = pinv(jacob0(q)) @ (e_v + error), with no tracking error
CartJv(ev) == <<ev, 0>>

\* the CARTESIAN branch of step(): decay when stale, drop to JOINTS at zero,
\* then map the twist to joint velocities, or preempt when tf has no transform
CartesianStep(st, tf_ok) ==
    LET ev == DecayEv(st.e_v)
        a  == IF Stale(st)
              THEN [st EXCEPT !.e_v = ev,
                              !.mode = IF ev = 0 THEN "JOINTS" ELSE @]
              ELSE st
    IN  IF tf_ok THEN [a EXCEPT !.j_v = CartJv(a.e_v)] ELSE preempt(a)

\* the executor branch of step(): the executor's velocity, else decay a stale j_v
ExecutorStep(st, rq) ==
    IF st.executor.id # "none"
    THEN LET r == step(st.executor, rq, DT)
         IN  [st EXCEPT !.executor = r.ex, !.j_v = r.out]
    ELSE IF (\E i \in DOMAIN st.j_v : st.j_v[i] # 0) /\ Stale(st)
         THEN [st EXCEPT !.j_v = DecayJv(@)]
         ELSE st

\* the safety test of step(): an error flag in the sampled state, or
\* check_singularity(q)
TickFault(st, rq, errors) == errors # 0 \/ SingularityFound(st, rq)

\* step(dt): one control tick on supervisor st at joint state rq
TickBody(st, rq, errors, tf_ok) ==
    LET s1 == check_singularity(st, rq)
        s2 == IF TickFault(st, rq, errors) THEN preempt(s1) ELSE s1
        s3 == IF s2.mode = "CARTESIAN" THEN CartesianStep(s2, tf_ok) ELSE s2
        s4 == ExecutorStep(s3, rq)
    IN  [s4 EXCEPT !.age = Min(@ + 1, AgeMax)]

----------------------------------------------------------------------------
(* Inputs *)

\* trajectory samples, and the positions the joint-state feed may report
PosVals == {<<0, 0>>, <<1, 0>>, <<1, 3>>}
QVals == PosVals \cup {<<Far, 0>>}
Cutoffs == {TrackCutoff, DefaultCutoff}

SeqsUpTo(S, n) == UNION {[1..k -> S] : k \in 1..n}

\* a Trajectory: samples s, velocity samples sd, and either a duration
\* (istime) or the sample count in t
TrajSet ==
    {[s |-> ss, sd |-> [k \in DOMAIN ss |-> Ones], t |-> Len(ss), istime |-> FALSE] :
        ss \in SeqsUpTo(PosVals, MaxLen)}
    \cup
    {[s |-> x[1], sd |-> [k \in DOMAIN x[1] |-> Ones], t |-> x[2], istime |-> TRUE] :
        x \in SeqsUpTo(PosVals, MaxLen) \X (1..MaxT)}

----------------------------------------------------------------------------
(* trajectory_collision_checker.  A trajectory is its number of samples n  *)
(* and the set hits of sample indices (from 0, as in the code) at which    *)
(* check_collision_per_state answers False.                                *)

MaxN == 30         \* longest trajectory handed to the collision checker
MaxHits == 2       \* most samples of it that are in collision

StepThresh == 10   \* ROSRobot.py:2343  step_thresh

\* every sample is visited
StepValue_One(n) == 1

\* step_value = int(len(traj.s) / step_thresh) if that is > 0 else 1
StepValue(n) == IF n \div StepThresh > 0 THEN n \div StepThresh ELSE 1

\* for idx in range(idx, n, step_value): the per-state check at idx; a
\* collision sets go = False and breaks.  checked counts the calls made.
RECURSIVE StridedWalk(_, _, _, _, _)
StridedWalk(idx, n, hits, go, checked) ==
    IF idx >= n THEN [go |-> go, checked |-> checked]
    ELSE IF idx \in hits THEN [go |-> FALSE, checked |-> checked + 1]
    ELSE StridedWalk(idx + StepValue(n), n, hits, go, checked + 1)

\* the same with the end-state check left out
trajectory_collision_checker_NoEndCheck(n, hits) ==
    StridedWalk(0, n, hits, TRUE, 0)

\* go = True; the end state traj.s[-1] is checked first and sets go = False
\* without returning; then the strided walk; return go
trajectory_collision_checker(n, hits) ==
    StridedWalk(0, n, hits, (n - 1) \notin hits, 0)

NoWalk == [n |-> 0, hits |-> {}, done |-> FALSE, go |-> FALSE, checked |-> 0]

----------------------------------------------------------------------------
(* pose_within_workspace.  A pose is None ("none"), Pose() ("empty") or a  *)
(* pose with a position <<x, y, z>>; the /robot_workspace parameter is     *)
(* "unset", names a file that is missing ("bad_path") or has no workspace  *)
(* entry ("bad_yaml"), or gives the corners min and max of a box.          *)

Workspace(kind) == [kind |-> kind, min |-> <<0, 0, 0>>, max |-> <<2, 2, 2>>]
Workspaces == {Workspace(k) : k \in {"unset", "bad_path", "bad_yaml", "box"}}
Pose(kind, position) == [kind |-> kind, position |-> position]
Poses ==
    {Pose("none", <<0, 0, 0>>), Pose("empty", <<0, 0, 0>>)} \cup
    {Pose("pose", p) : p \in {<<1, 1, 1>>, <<0, 1, 1>>, <<1, 2, 1>>, <<1, 1, 3>>}}

\* the same with the comparison against the box left out
pose_within_workspace_NoBox(pose, workspace) ==
    IF pose.kind \in {"none", "empty"} THEN FALSE
    ELSE IF workspace.kind = "unset" THEN TRUE
    ELSE IF workspace.kind \in {"bad_path", "bad_yaml"} THEN FALSE
    ELSE TRUE

pose_within_workspace(pose, workspace) ==
    IF pose.kind \in {"none", "empty"} THEN FALSE
    ELSE IF workspace.kind = "unset" THEN TRUE
    ELSE IF workspace.kind \in {"bad_path", "bad_yaml"} THEN FALSE
    ELSE ~ \E i \in 1..3 : \/ pose.position[i] <= workspace.min[i]
                           \/ pose.position[i] >= workspace.max[i]

\* the pose goal in service: what the goal and the world make
\* general_executor's checks answer, and how the call ended
NoRequest ==
    [state |-> "none", pose |-> Pose("none", <<0, 0, 0>>),
     workspace |-> Workspace("unset"), valid |-> TRUE, hits |-> {},
     goal |-> <<0, 0>>]

----------------------------------------------------------------------------
(* The collision scene of a two-link arm.  Geometry is given, not          *)
(* computed: adjacent[c] tells whether the shapes of links A and B         *)
(* intersect at configuration c, and a dynamic object is the map from      *)
(* each configuration to the links its shape intersects there.             *)

Links == {"A", "B"}
Configs == {"q", "r"}
Names == {"sphere", "B"}
Shapes == [Configs -> SUBSET Links]

NoOverlaps == [k \in {} |-> {}]
NoObjects == [k \in {} |-> [c \in Configs |-> {}]]

\* self.collision_dict.keys(): the links whose entry was made from the
\* description and is still there, then the entries made at runtime
Keys(sc) == sc.link_keys \cup DOMAIN sc.objects

\* link.iscollided(obj) for obj in check_list = collision_dict[target], the
\* robot being at cfg: the shape of an entry made at runtime meets the links
\* it intersects, the shapes of a link's own entry meet the other link
IsCollided(sc, target, link, cfg) ==
    IF target \in DOMAIN sc.objects THEN link \in sc.objects[target][cfg]
    ELSE sc.adjacent[cfg]

\* the same with the ignore list left out
get_links_in_collision_NoIgnore(sc, target, ignore, link_list, cfg) ==
    {l \in (IF link_list = {} THEN Links ELSE link_list) :
        l # target /\ IsCollided(sc, target, l, cfg)}

\* get_links_in_collision(target_link, ignore_list, check_list, link_list):
\* the names of the links of link_list that meet a shape of the check list
\* and are neither ignored nor the target (check_dict is keyed by name, so
\* the order of link_list does not show in the result); an empty link_list
\* stands for self.sorted_links, every link of the robot
get_links_in_collision(sc, target, ignore, link_list, cfg) ==
    {l \in (IF link_list = {} THEN Links ELSE link_list) :
        l \notin ignore /\ l # target /\ IsCollided(sc, target, l, cfg)}

\* the link lists a query may be given: links in any order, none twice
LinkLists == {<<>>} \cup {l \in SeqsUpTo(Links, Cardinality(Links)) :
                             \A i, j \in 1..Len(l) : i # j => l[i] # l[j]}

NoLink == [link |-> "none", collided |-> FALSE]

\* the loop of check_link_collision over reversed(sliced_links), i counting
\* down from the last link: an ignored link and the target are skipped, the
\* first link that meets a shape of the check list is returned
RECURSIVE LinkWalk(_, _, _, _, _, _)
LinkWalk(sc, target, sliced_links, ignore, cfg, i) ==
    IF i = 0 THEN NoLink
    ELSE IF sliced_links[i] \in ignore \/ sliced_links[i] = target
         THEN LinkWalk(sc, target, sliced_links, ignore, cfg, i - 1)
    ELSE IF IsCollided(sc, target, sliced_links[i], cfg)
         THEN [link |-> sliced_links[i], collided |-> TRUE]
    ELSE LinkWalk(sc, target, sliced_links, ignore, cfg, i - 1)

\* check_link_collision(target_link, sliced_links, ignore_list, check_list)
check_link_collision(sc, target, sliced_links, ignore, cfg) ==
    LinkWalk(sc, target, sliced_links, ignore, cfg, Len(sliced_links))

\* the same taking the overlaps on record as the ignore list
characterise_collision_overlaps_Ignoring(sc) ==
    [sc EXCEPT !.overlapped =
        [k \in Keys(sc) |->
            get_links_in_collision(sc, k,
                IF k \in DOMAIN sc.overlapped THEN sc.overlapped[k] ELSE {},
                Links, sc.live)]]

\* characterise_collision_overlaps: every key's overlaps at the live
\* configuration, with nothing ignored
characterise_collision_overlaps(sc) ==
    [sc EXCEPT !.overlapped =
        [k \in Keys(sc) |-> get_links_in_collision(sc, k, {}, Links, sc.live)]]

\* the same answering True when a collision is found
check_collision_per_state_Inverted(sc, cfg) ==
    \E k \in Keys(sc) :
        get_links_in_collision(sc, k,
            IF k \in DOMAIN sc.overlapped THEN sc.overlapped[k] ELSE {},
            Links, cfg) # {}

\* check_collision_per_state(q): True when no key has a link in collision
\* that its overlap list does not excuse
check_collision_per_state(sc, cfg) ==
    \A k \in Keys(sc) :
        get_links_in_collision(sc, k,
            IF k \in DOMAIN sc.overlapped THEN sc.overlapped[k] ELSE {},
            Links, cfg) = {}

NoCheck == [at |-> "none", go |-> TRUE]
NoQuery == [target |-> "none", ignore |-> {}, links |-> <<>>, at |-> "none",
            out |-> {}, first |-> NoLink]

\* ROSRobot.__init__: collision_dict has the entry of every link, no
\* overlaps characterised yet, no dynamic objects; ghost is robot_ghost.q,
\* not yet set by a check
Scene(live, adjacent) ==
    [live |-> live, adjacent |-> adjacent, link_keys |-> Links, objects |-> NoObjects,
     dynamic |-> {}, removal |-> {}, overlapped |-> NoOverlaps, last |-> NoCheck,
     query |-> NoQuery, resp |-> "none", ghost |-> "unset"]

EmptyScene == Scene("q", [c \in Configs |-> TRUE])

----------------------------------------------------------------------------
(* The nearest-neighbour query for collision candidates.  Links and        *)
(* objects stand on a line; the base link is at 0.                         *)

MaxPos == 2        \* the farthest place of a link or an object
DefaultDim == 4    \* dim of query_kd_nn_collision_tree
Places == 0..MaxPos
KdObjects == {"sphere", "box"}

\* the placement of the links and objects, and one query: pos is the world
\* position of every key, objects the dynamic objects in collision_dict,
\* shaped the links that have collision shapes, overlapped the overlaps on
\* record for the origin link, dim the number of neighbours asked for
KdQuestion(pos, objects, shaped, overlapped, origin, dim) ==
    [state |-> "asked", pos |-> pos, objects |-> objects, shaped |-> shaped,
     overlapped |-> overlapped, origin |-> origin, dim |-> dim,
     raised |-> FALSE, out |-> <<>>]

NoKd == [KdQuestion([c \in Links \cup KdObjects |-> 0], {}, {}, {}, "A", DefaultDim)
            EXCEPT !.state = "none"]

\* the keys closest_dist_query_pose_based keeps: in collision_dict, with a
\* shape, not overlapped with the origin link and not the origin link
Eligible(k) ==
    {c \in Links \cup k.objects :
        /\ c \in Links => c \in k.shaped
        /\ c \notin k.overlapped
        /\ c # k.origin}

\* closest_dist_query_pose_based: a link of the robot tree is given by its
\* translation from the origin link, ets(start=origin, end=link); an object
\* outside the tree by the translation of its first shape, from the base
closest_dist_query_pose_based(k) ==
    [c \in Eligible(k) |->
        IF c \in Links THEN k.pos[c] - k.pos[k.origin] ELSE k.pos[c]]

\* the distance the tree measures: from target_position, the origin link
\* seen from the base, to the point stored for c
TreeDist(k, c) == Abs(closest_dist_query_pose_based(k)[c] - k.pos[k.origin])

\* tree.query(X=[target_position], k=...): the neighbours asked for, nearest
\* first; the order among equal distances is the tree's
TreeQuery(k, n) ==
    {l \in SeqsUpTo(Eligible(k), n) :
        /\ Len(l) = n
        /\ \A i, j \in 1..n : i < j => l[i] # l[j] /\ TreeDist(k, l[i]) <= TreeDist(k, l[j])
        /\ \A c \in Eligible(k) \ {l[i] : i \in 1..n} :
              \A i \in 1..n : TreeDist(k, l[i]) <= TreeDist(k, c)}

\* query_kd_nn_collision_tree for one sliced link: KDTree raises ValueError
\* on empty data; else the len(translation_dict) nearest, or dim if fewer
query_kd_nn_collision_tree(k) ==
    LET n == Cardinality(Eligible(k)) IN
        IF n = 0 THEN {[k EXCEPT !.state = "done", !.raised = TRUE]}
        ELSE {[k EXCEPT !.state = "done", !.out = l] :
                 l \in TreeQuery(k, IF n < k.dim THEN n ELSE k.dim)}
\* named_poses (name -> joint positions) and the request in hand: the
\* handler, the name asked for, the results set on its server or returned,
\* and whether the handler raised
PoseNames == {"ready", "away"}
NoPoses == [n \in {} |-> Zero]
Named(poses, kind, name, results, raised) ==
    [poses |-> poses, kind |-> kind, name |-> name, results |-> results,
     raised |-> raised]
NoNamed == Named(NoPoses, "none", "", <<>>, FALSE)
\* q_safe_window is np.zeros([200, n]); rows holds the rows down to the last
\* one written, the rows after them being the zeros they were made as; p is
\* q_safe_window_p and calls counts the calls of set_safe_state
Capacity == 200
MaxCalls == 205    \* set_safe_state is called no more often than this
NoSafe == [rows |-> <<>>, p |-> 0, calls |-> 0]
Row(sf, i) == IF i <= Len(sf.rows) THEN sf.rows[i] ELSE Zero

\* q_safe_window[i - 1] = v
SetRow(sf, i, v) ==
    [k \in 1..(IF i > Len(sf.rows) THEN i ELSE Len(sf.rows)) |->
        IF k = i THEN v ELSE Row(sf, k)]

\* np.roll(q_safe_window, shift=-1, axis=0): every row moves one place to
\* the front and the first comes last
Roll(sf) == [k \in 1..Capacity |-> IF k < Capacity THEN Row(sf, k + 1) ELSE Row(sf, 1)]

\* the same with the last row overwritten in place once the window is full
set_safe_state_NoRoll(sf, v) ==
    IF sf.p < Capacity
    THEN [rows |-> SetRow(sf, sf.p + 1, v), p |-> sf.p + 1, calls |-> sf.calls + 1]
    ELSE [rows |-> SetRow(sf, Capacity, v), p |-> sf.p, calls |-> sf.calls + 1]

\* set_safe_state, self.q being v
set_safe_state(sf, v) ==
    IF sf.p < Capacity
    THEN [rows |-> SetRow(sf, sf.p + 1, v), p |-> sf.p + 1, calls |-> sf.calls + 1]
    ELSE [rows |-> SetRow([sf EXCEPT !.rows = Roll(sf)], Capacity, v),
          p |-> sf.p, calls |-> sf.calls + 1]
\* the links of the chain are numbered from the base link, 1, up to the
\* gripper; 0 stands for a link name that is not on the chain
MaxChain == 5      \* the longest chain of links

\* sorted_links and collision_sliced_links = sorted_links, before
\* update_link_collision_window is called with the two bounds
Sliced(n, start, stop) ==
    [state |-> "made", sorted_links |-> [i \in 1..n |-> i],
     collision_sliced_links |-> [i \in 1..n |-> i],
     collision_check_start_link |-> start, collision_check_stop_link |-> stop]
NoSliced == [Sliced(1, 1, 1) EXCEPT !.state = "none"]

Reverse(l) == [i \in 1..Len(l) |-> l[Len(l) + 1 - i]]

\* the indexes (from 1) at which the chain holds the link
IndexesOf(l, link) == {i \in 1..Len(l) : l[i] = link}
First(S) == CHOOSE i \in S : \A j \in S : i <= j

\* update_link_collision_window: with both bounds on the chain and the start
\* not before the stop, the slice from stop to start, reversed; with the
\* start before the stop, a return that leaves the window as it was; with a
\* bound off the chain, the window is made the list sorted_links itself,
\* which reverse() then reverses in place
update_link_collision_window(w) ==
    LET starts == IndexesOf(w.sorted_links, w.collision_check_start_link)
        stops  == IndexesOf(w.sorted_links, w.collision_check_stop_link)
    IN  IF starts # {} /\ stops # {}
        THEN IF First(starts) < First(stops)
             THEN [w EXCEPT !.state = "sliced"]
             ELSE [w EXCEPT !.state = "sliced",
                            !.collision_sliced_links =
                               Reverse(SubSeq(w.sorted_links, First(stops), First(starts)))]
        ELSE [w EXCEPT !.state = "sliced",
                       !.sorted_links = Reverse(w.sorted_links),
                       !.collision_sliced_links = Reverse(w.sorted_links)]

----------------------------------------------------------------------------
(* The ros_control calls general_executor makes for a robot under hardware *)
(* control: controller_select(JOINT_TRAJECTORY), then                      *)
(* execute_ros_control_trajectory, then controller_select(JOINT_GROUP_VEL).*)
(* phase says which of the three is running (0: none), pc where it waits,  *)
(* waited for how many seconds; names says whether both controller names   *)
(* were configured.                                                        *)

ServerTimeout == 5    \* wait_for_server(timeout=rospy.Duration(secs=5))
MaxWait == 12         \* seconds of waiting are counted up to here

JOINT_GROUP_VEL == 0
JOINT_TRAJECTORY == 1

NoHw == [pc |-> "idle", phase |-> 0, waited |-> 0,
         controller_type |-> JOINT_GROUP_VEL, names |-> TRUE, result |-> "none"]

Wait(h) == [h EXCEPT !.waited = Min(h.waited + 1, MaxWait)]

\* the controller type the running controller_select was called with
RequestedType(h) == IF h.phase = 1 THEN JOINT_TRAJECTORY ELSE JOINT_GROUP_VEL

\* controller_select goes to the switch service only for a valid type, with
\* both names configured and a type other than the current one; every other
\* case returns False at once
NeedsSwitch(h, controller_type) ==
    /\ controller_type \in {JOINT_GROUP_VEL, JOINT_TRAJECTORY}
    /\ h.names
    /\ controller_type # h.controller_type

\* controller_select has returned (its value is not looked at): the first
\* one is followed by execute_ros_control_trajectory, whose action name
\* is built from trajectory_controller and raises on None; the second one
\* ends the calls
AfterSelect(h) ==
    IF h.phase = 1
    THEN IF h.names
         THEN [h EXCEPT !.phase = 2, !.pc = "wait_for_server", !.waited = 0]
         ELSE [h EXCEPT !.phase = 0, !.pc = "idle", !.waited = 0, !.result = "raised"]
    ELSE [h EXCEPT !.phase = 0, !.pc = "idle", !.waited = 0]

\* controller_select called as the p-th call
controller_select(h, p, controller_type) ==
    IF NeedsSwitch(h, controller_type)
    THEN [h EXCEPT !.phase = p, !.pc = "wait_for_service", !.waited = 0]
    ELSE AfterSelect([h EXCEPT !.phase = p])

\* execute_ros_control_trajectory has returned ret
AfterExecute(h, ret) ==
    controller_select([h EXCEPT !.result = ret], 3, JOINT_GROUP_VEL)

\* controller_switch_service: rospy.wait_for_service(ns) is called without
\* a timeout and returns only once the service is there
wait_for_service(h, available) ==
    IF available THEN [h EXCEPT !.pc = "service", !.waited = 0] ELSE Wait(h)

\* controller_switch_service: the call of the service proxy returns with a
\* response (ok or not, the type is recorded either way) or raises
\* ServiceException (controller_select returns False); until then it blocks
service(h, answer) ==
    CASE answer = "none" -> Wait(h)
      [] answer = "exception" -> AfterSelect(h)
      [] OTHER -> AfterSelect([h EXCEPT !.controller_type = RequestedType(h)])

\* execute_ros_control_trajectory: wait_for_server gives up after
\* ServerTimeout seconds and the call returns False
wait_for_server(h, available) ==
    IF available THEN [h EXCEPT !.pc = "wait_for_result", !.waited = 0]
    ELSE IF h.waited + 1 >= ServerTimeout THEN AfterExecute(h, "failed")
    ELSE Wait(h)

\* execute_ros_control_trajectory: client.wait_for_result() is called
\* without a timeout and returns only once the server has answered
wait_for_result(h, answer) ==
    CASE answer = "none" -> Wait(h)
      [] answer = "ok" -> AfterExecute(h, "succeeded")
      [] OTHER -> AfterExecute(h, "failed")

----------------------------------------------------------------------------
(* Armer (src/armer/armer.py): the goal handlers that move the arm through *)
(* __traj_move, and preempt.  pc is the position of each goal handler,     *)
(* left the waypoints of the trajectory still to reach, result what the    *)
(* handler's last move returned.  since is history: whether preempt was    *)
(* called after the move now in progress began.                            *)

ArmGoals == {"pose", "joint_pose"}
MaxWaypoints == 2     \* waypoints of a trajectory, traj.q[1:]

NoArm == [preempted |-> FALSE, moving |-> FALSE, lock |-> "free",
          pc |-> [h \in ArmGoals |-> "idle"], left |-> 0, since |-> FALSE,
          result |-> [h \in ArmGoals |-> "none"]]

\* preempt(): self.preempted = True (and the velocities zeroed)
Armer_preempt(a) == [a EXCEPT !.preempted = TRUE, !.since = TRUE]

\* a goal handler up to its lock: if self.moving: self.preempt()
goal_cb_enter(a, h) ==
    [(IF a.moving THEN Armer_preempt(a) ELSE a) EXCEPT !.pc[h] = "lock"]

\* with self.lock, then __traj_move up to its loop: self.moving = True
traj_move_begin(a, h, n) ==
    [a EXCEPT !.lock = h, !.pc[h] = "move", !.moving = TRUE, !.left = n,
              !.since = FALSE]

\* __traj_move, one pass of its loops: a set flag, or no waypoint left,
\* leaves the loops (self.moving = False); else the arm has reached the
\* waypoint or not when the handler is woken
traj_move_pass(a, h, reached) ==
    IF a.preempted \/ a.left = 0
    THEN [a EXCEPT !.pc[h] = "end", !.moving = FALSE]
    ELSE IF reached THEN [a EXCEPT !.left = @ - 1]
    ELSE a

\* __traj_move, its end: result = not self.preempted; self.preempted =
\* False; the handler answers its goal and leaves the lock
traj_move_end(a, h) ==
    [a EXCEPT !.pc[h] = "idle", !.lock = "free", !.preempted = FALSE,
              !.result[h] = IF a.preempted THEN "aborted" ELSE "succeeded"]

----------------------------------------------------------------------------
(* ArmerNode: the timer that drives the supervisor under ROS 2.  main()    *)
(* spins a MultiThreadedExecutor and the timer sits in a                   *)
(* ReentrantCallbackGroup, so a worker thread takes the timer whenever it  *)
(* is due, whether or not an earlier callback has returned.                *)

MaxClock == 4      \* the clock stops here
NumThreads == 4    \* entry_point.py:73  MultiThreadedExecutor(num_threads=4)
TimerPeriod == 1   \* entry_point.py:45  timer_period_sec = 1 / frequency

Threads == 1..NumThreads
IdleThread == [pc |-> "idle", current_time |-> 0, dt |-> 0]

\* ArmerNode.__init__: last_time = now; the timer is due one period later
TimerInit ==
    [now |-> 0, last_time |-> 0, due |-> TimerPeriod, writes |-> 0,
     thread |-> [t \in Threads |-> IdleThread]]

----------------------------------------------------------------------------
InitSupervisor ==
    /\ executor = NoExecutor
    /\ q = Zero
    /\ j_v = Zero
    /\ e_v = 0
    /\ mode = "JOINTS"
    /\ preempted = FALSE
    /\ moving = FALSE
    /\ flags = [singularity_approached |-> FALSE, collision_approached |-> FALSE]
    /\ lock = "free"
    /\ age = AgeMax
    /\ pc = [k \in Kinds |-> "idle"]
    /\ hist = [op |-> "init", calls |-> 0, tracked |-> FALSE, aborted |-> FALSE]

\* the parts modelled on their own, as they are after construction
InitParts ==
    /\ kd = NoKd
    /\ named = NoNamed
    /\ safe = NoSafe
    /\ sliced = NoSliced
    /\ hw = NoHw
    /\ arm = NoArm

Init ==
    /\ InitSupervisor
    /\ InitParts
    /\ req = NoRequest
    /\ walk = NoWalk
    /\ scene = EmptyScene
    /\ timer = TimerInit

----------------------------------------------------------------------------
(* The executor driven on its own: construct, move the robot, step, query, abort *)

CallCap == MaxLen + MaxT + 1

ExNew(traj) ==
    /\ executor.id = "none"
    /\ executor' = TrajectoryExecutor(traj, "exec")
    /\ hist' = [op |-> "new", calls |-> 0, tracked |-> TRUE, aborted |-> FALSE]
    /\ UNCHANGED <<q, j_v, supVars>>
    /\ UNCHANGED otherVars

\* the joint-state feed reports an arbitrary position
ExSetQ(v) ==
    /\ q' = v
    /\ hist' = [hist EXCEPT !.op = "set_q"]
    /\ UNCHANGED <<executor, j_v, supVars>>
    /\ UNCHANGED otherVars

\* the joint-state feed reports exactly the position the plan requires now
ExTrack ==
    /\ executor.id # "none"
    /\ ~is_finished(executor, q, StepCutoff).finished
    /\ q' = ReqJp(executor)
    /\ hist' = [hist EXCEPT !.op = "track"]
    /\ UNCHANGED <<executor, j_v, supVars>>
    /\ UNCHANGED otherVars

ExStep ==
    /\ executor.id # "none"
    /\ LET r == step(executor, q, DT)
       IN  /\ executor' = r.ex
           /\ j_v' = r.out
           /\ hist' = [hist EXCEPT
                        !.op = "step",
                        !.calls = Min(@ + 1, CallCap),
                        !.tracked = @ /\
                           (is_finished(executor, q, StepCutoff).finished
                              \/ q = ReqJp(executor))]
    /\ UNCHANGED <<q, supVars>>
    /\ UNCHANGED otherVars

ExIsFinished(c) ==
    /\ executor.id # "none"
    /\ executor' = is_finished(executor, q, c)
    /\ hist' = [hist EXCEPT !.op = "is_finished"]
    /\ UNCHANGED <<q, j_v, supVars>>
    /\ UNCHANGED otherVars

ExAbort ==
    /\ executor.id # "none"
    /\ executor' = abort(executor)
    /\ hist' = [hist EXCEPT !.op = "abort", !.tracked = FALSE, !.aborted = TRUE]
    /\ UNCHANGED <<q, j_v, supVars>>
    /\ UNCHANGED otherVars

NextExec ==
    \/ \E traj \in TrajSet : ExNew(traj)
    \/ \E v \in QVals : ExSetQ(v)
    \/ ExTrack
    \/ ExStep
    \/ \E c \in Cutoffs : ExIsFinished(c)
    \/ ExAbort

SpecExec == Init /\ [][NextExec]_vars

----------------------------------------------------------------------------
(* The supervisor: control tick, joint-state feed and request handlers *)

\* hist.op names the last step when it is one the properties speak about
OpsKept == {"tick_fault", "tick_decayed", "tick_zeroed", "vel_move",
            "guarded_move", "joint_vel", "servo", "install", "stop",
            "recovered"}
Op(name) == hist' = [hist EXCEPT !.op = IF name \in OpsKept THEN name ELSE "other"]
Goto(k, loc) == pc' = [pc EXCEPT ![k] = loc]
Active == {k \in Kinds : pc[k] # "idle"}

\* a request of kind k arrives: its handler thread is free
Arrives(k) == pc[k] = "idle" /\ Cardinality(Active) < NH

\* with self.lock: the handler waiting at "lock" enters when the lock is free
Acquires(k) == pc[k] = "lock" /\ lock = "free"

\* leaving the with block, normally or by an exception
Release(k) == lock' = IF lock = k THEN "free" ELSE lock

\* if self.moving: self.preempt()
PreemptIfMoving(st) == IF st.moving THEN preempt(st) ELSE st

\* if self.moving: self.preempt(); self.moving = False
PreemptAndClearMoving(st) ==
    IF st.moving THEN [preempt(st) EXCEPT !.moving = FALSE] ELSE st

\* self.executor = None; self.moving = False
Cleanup(st) == [st EXCEPT !.executor = NoExecutor, !.moving = FALSE]

\* if mode == ERROR: mode = JOINTS; preempted = False
ResetIfError(st) ==
    IF st.mode = "ERROR"
    THEN [st EXCEPT !.mode = "JOINTS", !.preempted = FALSE]
    ELSE st

\* step(), called by the control timer
Tick(errors, tf_ok) ==
    LET st == TickBody(Cur, q, errors, tf_ok)
    IN  /\ Set(st)
        /\ Op(IF TickFault(Cur, q, errors) THEN "tick_fault"
              ELSE IF mode = "CARTESIAN" /\ ~tf_ok THEN "tick_tf"
              ELSE IF mode = "CARTESIAN" /\ st.mode = "JOINTS" THEN "tick_zeroed"
              ELSE IF mode = "CARTESIAN" /\ Stale(Cur) THEN "tick_decayed"
              ELSE "tick")
        /\ UNCHANGED <<q, lock, pc>>
        /\ UNCHANGED otherVars

AnyTick == \E errors \in {0, 1}, tf_ok \in BOOLEAN : Tick(errors, tf_ok)

\* _state_cb: the joint-state feed reports position v
StateCb(v) ==
    /\ q' = v
    /\ q # v
    /\ Op("state")
    /\ UNCHANGED <<executor, j_v, supVars>>
    /\ UNCHANGED otherVars

\* the stop service, or a cancel of a discrete-goal action: preempt()
Stop ==
    /\ Set(preempt(Cur))
    /\ Op("stop")
    /\ UNCHANGED <<q, lock, pc>>
    /\ UNCHANGED otherVars

\* a handler checks for ERROR and refuses, else preempts a moving arm and
\* goes on to wait for the lock
EnterChecked(k) ==
    /\ Arrives(k)
    /\ IF mode = "ERROR"
       THEN Op("refused") /\ UNCHANGED <<executor, q, j_v, supVars>>
       ELSE /\ Set(PreemptIfMoving(Cur))
            /\ Goto(k, "lock")
            /\ Op("entry")
            /\ UNCHANGED <<q, lock>>

\* a handler with no ERROR check: preempt a moving arm, wait for the lock
EnterUnchecked(k, st) ==
    /\ Arrives(k)
    /\ Set(st)
    /\ Goto(k, "lock")
    /\ Op("entry")
    /\ UNCHANGED <<q, lock>>

\* velocity_cb up to the lock
velocity_cb_enter ==
    /\ EnterChecked("velocity")
    /\ UNCHANGED otherVars

\* velocity_cb under the lock: preempted = False; __vel_move(msg)
velocity_cb_locked(v) ==
    /\ Acquires("velocity")
    /\ Set(vel_move([Cur EXCEPT !.preempted = FALSE], v))
    /\ Goto("velocity", "idle")
    /\ Op("vel_move")
    /\ UNCHANGED <<q, lock>>
    /\ UNCHANGED otherVars

\* joint_velocity_cb up to the lock (the vector has the robot's length)
joint_velocity_cb_enter ==
    /\ EnterChecked("joint_velocity")
    /\ UNCHANGED otherVars

\* joint_velocity_cb under the lock: j_v = msg.joints; last_update = now
joint_velocity_cb_locked(v) ==
    /\ Acquires("joint_velocity")
    /\ Set(Refresh([Cur EXCEPT !.j_v = v]))
    /\ Goto("joint_velocity", "idle")
    /\ Op("joint_vel")
    /\ UNCHANGED <<q, lock>>
    /\ UNCHANGED otherVars

\* servo_cb up to the lock
servo_cb_enter ==
    /\ EnterChecked("servo")
    /\ UNCHANGED otherVars

\* servo_cb under the lock: j_v = pinv(jacobe) @ p_servo(...); last_update = now
servo_cb_locked(v) ==
    /\ Acquires("servo")
    /\ Set(Refresh([Cur EXCEPT !.j_v = v]))
    /\ Goto("servo", "idle")
    /\ Op("servo")
    /\ UNCHANGED <<q, lock>>
    /\ UNCHANGED otherVars

\* guarded_velocity_cb up to the lock: no ERROR check
guarded_velocity_cb_enter ==
    /\ EnterUnchecked("guarded_velocity", PreemptIfMoving(Cur))
    /\ UNCHANGED otherVars

\* guarded_velocity_cb takes the lock: preempted = False
guarded_velocity_cb_locked ==
    /\ Acquires("guarded_velocity")
    /\ lock' = "guarded_velocity"
    /\ Set([Cur EXCEPT !.preempted = FALSE])
    /\ Goto("guarded_velocity", "guard")
    /\ Op("guard_start")
    /\ q' = q
    /\ UNCHANGED otherVars

\* one pass of its loop: leave when preempted or a guard triggered,
\* else __vel_move(twist)
guarded_velocity_cb_loop(v, triggered) ==
    /\ pc["guarded_velocity"] = "guard"
    /\ IF preempted \/ triggered
       THEN /\ Goto("guarded_velocity", "idle")
            /\ Release("guarded_velocity")
            /\ Op("guard_end")
            /\ UNCHANGED <<executor, q, j_v, e_v, mode, preempted, moving, flags, age>>
       ELSE /\ Set(vel_move(Cur, v))
            /\ Op("guarded_move")
            /\ UNCHANGED <<q, lock, pc>>
    /\ UNCHANGED otherVars

\* traj_generator(robot, qf, ...): a timed trajectory from the current joints
\* to qf that starts and ends at rest
Mid(a, b) == [i \in DOMAIN a |-> (a[i] + b[i]) \div 2]
TrajGen(q0, qf) ==
    [s |-> <<q0, Mid(q0, qf), qf>>, sd |-> <<Zero, Ones, Zero>>,
     t |-> MaxT, istime |-> TRUE]

\* the handlers that call general_executor under the lock, and those that
\* reset ERROR
Locked(k) == k \notin {"recover", "recover_move"}
RecoveryKinds == {"recover", "recover_move", "home"}

\* what general_executor's checks can answer for a goal
Gates == {"ok", "workspace", "invalid", "collision"}

\* the same with the collision check never run
general_executor_NoCollisionGate(st, rq, k, goal, gate, workspace_ignore, collision_ignore) ==
    LET s1 == check_singularity(st, goal)
    IN  IF gate = "workspace" /\ ~workspace_ignore
        THEN [st |-> st, installed |-> FALSE]
        ELSE IF SingularityFound(st, goal) \/ gate = "invalid"
        THEN [st |-> s1, installed |-> FALSE]
        ELSE [st |-> [s1 EXCEPT !.executor =
                                 TrajectoryExecutor(TrajGen(rq, goal), k)],
              installed |-> TRUE]

\* general_executor up to its poll loop, called by handler k on supervisor st
\* at joints rq: workspace gate, singularity gate, trajectory generation,
\* collision check, then self.executor = TrajectoryExecutor(...)
general_executor(st, rq, k, goal, gate, workspace_ignore, collision_ignore) ==
    LET s1 == check_singularity(st, goal)
    IN  IF gate = "workspace" /\ ~workspace_ignore
        THEN [st |-> st, installed |-> FALSE]
        ELSE IF SingularityFound(st, goal)
        THEN [st |-> s1, installed |-> FALSE]
        ELSE IF gate = "invalid" \/ (gate = "collision" /\ ~collision_ignore)
        THEN [st |-> s1, installed |-> FALSE]
        ELSE [st |-> [s1 EXCEPT !.executor =
                                 TrajectoryExecutor(TrajGen(rq, goal), k)],
              installed |-> TRUE]

\* the clean-up each handler runs after general_executor or its own loop
AfterMotion(k, st) ==
    IF k = "recover" THEN [st EXCEPT !.mode = "JOINTS", !.preempted = FALSE]
    ELSE IF k \in {"home", "recover_move"} THEN Cleanup(ResetIfError(st))
    ELSE Cleanup(st)

\* handler k calls general_executor; a refused goal returns at once and the
\* handler runs its clean-up and ends
CallGeneralExecutor(k, goal, gate, workspace_ignore, collision_ignore) ==
    LET r == general_executor(Cur, q, k, goal, gate,
                              workspace_ignore, collision_ignore)
    IN  /\ q' = q
        /\ IF r.installed
           THEN /\ Set(r.st)
                /\ Goto(k, "poll")
                /\ Op("install")
                /\ lock' = IF Locked(k) THEN k ELSE lock
           ELSE /\ Set(AfterMotion(k, r.st))
                /\ Goto(k, "idle")
                /\ Op(IF k \in RecoveryKinds THEN "recovered" ELSE "gated")
                /\ lock' = lock

\* while not self.executor.is_finished(): sleep -- the pass that ends the
\* loop, and the handler's clean-up after it. self.executor is read afresh on
\* every pass: when another thread has set it to None the call raises and the
\* handler ends without its clean-up.
Poll(k) ==
    /\ pc[k] = "poll"
    /\ Goto(k, "idle")
    /\ Release(k)
    /\ q' = q
    /\ IF executor.id = "none"
       THEN /\ Op("raised")
            /\ UNCHANGED <<executor, j_v, e_v, mode, preempted, moving, flags, age>>
       ELSE LET e == is_finished(executor, q, DefaultCutoff)
            IN  /\ e.finished
                /\ Set(AfterMotion(k, [Cur EXCEPT !.executor = e]))
                /\ Op(IF k \in RecoveryKinds THEN "recovered" ELSE "finish")
    /\ UNCHANGED otherVars

\* pose_cb: no ERROR check
pose_cb_enter ==
    /\ EnterUnchecked("pose", PreemptIfMoving(Cur))
    /\ UNCHANGED otherVars

\* pose_cb under the lock: an IK solution equal to q is refused, else
\* general_executor(q = solution.q, pose = pose)
pose_cb_under_lock(goal, gate) ==
    /\ Acquires("pose")
    /\ IF goal = q
       THEN /\ Set(Cleanup(Cur))
            /\ Goto("pose", "idle")
            /\ Op("ik_invalid")
            /\ UNCHANGED <<q, lock>>
       ELSE CallGeneralExecutor("pose", goal, gate, FALSE, FALSE)

pose_cb_locked(goal, gate) ==
    /\ pose_cb_under_lock(goal, gate)
    /\ UNCHANGED otherVars

\* joint_pose_cb: general_executor(q = goal.joints, workspace_ignore = True)
joint_pose_cb_enter ==
    /\ EnterUnchecked("joint_pose", PreemptIfMoving(Cur))
    /\ UNCHANGED otherVars

joint_pose_cb_locked(goal, gate) ==
    /\ Acquires("joint_pose")
    /\ CallGeneralExecutor("joint_pose", goal, gate, TRUE, FALSE)
    /\ UNCHANGED otherVars

\* named_pose_cb: an unknown name returns at once, without the clean-up
named_pose_cb_enter ==
    /\ EnterUnchecked("named_pose", PreemptIfMoving(Cur))
    /\ UNCHANGED otherVars

named_pose_cb_under_lock(known, goal, gate) ==
    /\ Acquires("named_pose")
    /\ IF ~known
       THEN /\ Goto("named_pose", "idle")
            /\ Op("unknown_pose")
            /\ UNCHANGED <<executor, q, j_v, e_v, mode, preempted, moving, flags, lock, age>>
       ELSE CallGeneralExecutor("named_pose", goal, gate, FALSE, FALSE)

named_pose_cb_locked(known, goal, gate) ==
    /\ named_pose_cb_under_lock(known, goal, gate)
    /\ UNCHANGED otherVars

\* home_cb: general_executor(q = qr, workspace_ignore = True), then ERROR is
\* reset to JOINTS
HomeQ == Zero
home_cb_enter ==
    /\ EnterUnchecked("home", PreemptIfMoving(Cur))
    /\ UNCHANGED otherVars

home_cb_locked(gate) ==
    /\ Acquires("home")
    /\ CallGeneralExecutor("home", HomeQ, gate, TRUE, FALSE)
    /\ UNCHANGED otherVars

\* recover_cb: general_executor(q = self.q, ...) with no lock taken, then
\* mode = JOINTS; preempted = False (executor and moving are kept)
recover_cb_call(gate) ==
    /\ Arrives("recover")
    /\ CallGeneralExecutor("recover", q, gate, TRUE, TRUE)
    /\ UNCHANGED otherVars

\* recover_move_cb: general_executor(q = q_safe_window[0], ...) with no lock,
\* then ERROR is reset to JOINTS and the clean-up runs
SafeQ == Zero
recover_move_cb_call(gate) ==
    /\ Arrives("recover_move")
    /\ CallGeneralExecutor("recover_move", SafeQ, gate, TRUE, TRUE)
    /\ UNCHANGED otherVars

\* step_cb up to the lock
step_cb_enter ==
    /\ EnterUnchecked("step", PreemptAndClearMoving(Cur))
    /\ UNCHANGED otherVars

\* step_cb under the lock: moving = True; outside the workspace it cleans up
\* and returns; a linear motion servoes; else the executor is installed
step_cb_locked(goal, within_workspace, linear_motion) ==
    /\ Acquires("step")
    /\ q' = q
    /\ IF ~within_workspace
       THEN /\ Set(Cleanup(Cur))
            /\ Goto("step", "idle")
            /\ Op("gated")
            /\ lock' = lock
       ELSE IF linear_motion
       THEN /\ Set([Cur EXCEPT !.moving = TRUE])
            /\ Goto("step", "servo")
            /\ Op("servo_start")
            /\ lock' = "step"
       ELSE /\ Set([check_singularity(Cur, goal) EXCEPT
                        !.moving = TRUE,
                        !.executor = TrajectoryExecutor(TrajGen(q, goal), "step")])
            /\ Goto("step", "poll")
            /\ Op("install")
            /\ lock' = "step"
    /\ UNCHANGED otherVars

\* one pass of the linear-motion loop: j_v and last_update are written, and
\* the loop ends when p_servo reports arrival (or the goal is cancelled)
step_cb_servo(v, arrived) ==
    /\ pc["step"] = "servo"
    /\ q' = q
    /\ IF arrived
       THEN /\ Set(Cleanup(Refresh([Cur EXCEPT !.j_v = v])))
            /\ Goto("step", "idle")
            /\ Release("step")
            /\ Op("finish")
       ELSE /\ Set(Refresh([Cur EXCEPT !.j_v = v]))
            /\ Op("servo")
            /\ UNCHANGED <<lock, pc>>
    /\ UNCHANGED otherVars

\* pose_tracker_cb up to the lock
pose_tracker_cb_enter ==
    /\ EnterUnchecked("pose_tracker", PreemptAndClearMoving(Cur))
    /\ UNCHANGED otherVars

\* pose_tracker_cb takes the lock: preempted = False
pose_tracker_cb_locked ==
    /\ Acquires("pose_tracker")
    /\ lock' = "pose_tracker"
    /\ Set([Cur EXCEPT !.preempted = FALSE])
    /\ Goto("pose_tracker", "track")
    /\ Op("track_start")
    /\ q' = q
    /\ UNCHANGED otherVars

\* one pass of the tracking loop with a tracked pose inside the workspace:
\* linear motion writes j_v; else a new executor replaces a finished one
pose_tracker_cb_loop(goal, linear_motion, v) ==
    LET s0 == [Cur EXCEPT !.preempted = FALSE]
        e  == is_finished(executor, q, TrackCutoff)
    IN  /\ pc["pose_tracker"] = "track"
        /\ IF linear_motion
           THEN Set(Refresh([s0 EXCEPT !.moving = TRUE, !.j_v = v])) /\ Op("servo")
           ELSE IF executor.id # "none" /\ ~e.finished
           THEN Set(s0) /\ Op("track_wait")
           ELSE /\ Set([s0 EXCEPT !.executor =
                            TrajectoryExecutor(TrajGen(q, goal), "pose_tracker")])
                /\ Op("install")
        /\ UNCHANGED <<q, lock, pc>>
        /\ UNCHANGED otherVars

\* the tracking goal is cancelled: preempt_tracking(), and the loop ends
cancel_tracking ==
    /\ pc["pose_tracker"] = "track"
    /\ Set(preempt_tracking(Cur))
    /\ Goto("pose_tracker", "done")
    /\ Op("preempt_tracking")
    /\ UNCHANGED <<q, lock>>
    /\ UNCHANGED otherVars

\* after the loop: self.executor = None; self.moving = False
pose_tracker_cb_finish ==
    /\ pc["pose_tracker"] = "done"
    /\ Set(Cleanup(Cur))
    /\ Goto("pose_tracker", "idle")
    /\ Release("pose_tracker")
    /\ Op("finish")
    /\ q' = q
    /\ UNCHANGED otherVars

\* tf_to_pose_transporter_cb: publishes a pose, touches no supervisor field
tf_to_pose_transporter_cb_enter ==
    /\ Arrives("tf_to_pose")
    /\ Goto("tf_to_pose", "run")
    /\ Op("entry")
    /\ UNCHANGED <<executor, q, j_v, e_v, mode, preempted, moving, flags, lock, age>>
    /\ UNCHANGED otherVars

tf_to_pose_transporter_cb_finish ==
    /\ pc["tf_to_pose"] = "run"
    /\ Goto("tf_to_pose", "idle")
    /\ Op("finish")
    /\ UNCHANGED <<executor, q, j_v, e_v, mode, preempted, moving, flags, lock, age>>
    /\ UNCHANGED otherVars

\* its goal is cancelled: preempt_other()
cancel_other ==
    /\ pc["tf_to_pose"] = "run"
    /\ Set(preempt_other(Cur))
    /\ Op("preempt_other")
    /\ UNCHANGED <<q, lock, pc>>
    /\ UNCHANGED otherVars

EvCmds == {EvThresh}
JvCmds == {<<1, 0>>}
SupQs == {Zero} \cup SingularQs
GoalQs == {<<1, 3>>}
PoseGoals == GoalQs \cup SingularQs
PollKinds == {"pose", "joint_pose", "named_pose", "home", "recover",
              "recover_move", "step"}

Velocities ==
    \/ velocity_cb_enter
    \/ \E v \in EvCmds : velocity_cb_locked(v)
    \/ joint_velocity_cb_enter
    \/ \E v \in JvCmds : joint_velocity_cb_locked(v)
    \/ servo_cb_enter
    \/ \E v \in JvCmds : servo_cb_locked(v)
    \/ guarded_velocity_cb_enter
    \/ guarded_velocity_cb_locked
    \/ \E v \in EvCmds, triggered \in BOOLEAN : guarded_velocity_cb_loop(v, triggered)

Goals ==
    \/ pose_cb_enter
    \/ \E goal \in PoseGoals, gate \in Gates : pose_cb_locked(goal, gate)
    \/ joint_pose_cb_enter
    \/ \E goal \in GoalQs, gate \in Gates : joint_pose_cb_locked(goal, gate)
    \/ named_pose_cb_enter
    \/ \E known \in BOOLEAN, goal \in GoalQs, gate \in Gates :
          named_pose_cb_locked(known, goal, gate)
    \/ home_cb_enter
    \/ \E gate \in Gates : home_cb_locked(gate)
    \/ \E k \in PollKinds : Poll(k)

Recoveries ==
    \/ \E gate \in Gates : recover_cb_call(gate)
    \/ \E gate \in Gates : recover_move_cb_call(gate)

Trackers ==
    \/ step_cb_enter
    \/ \E goal \in GoalQs, ws \in BOOLEAN, lin \in BOOLEAN : step_cb_locked(goal, ws, lin)
    \/ \E v \in JvCmds, arrived \in BOOLEAN : step_cb_servo(v, arrived)
    \/ pose_tracker_cb_enter
    \/ pose_tracker_cb_locked
    \/ \E goal \in GoalQs, lin \in BOOLEAN, v \in JvCmds : pose_tracker_cb_loop(goal, lin, v)
    \/ cancel_tracking
    \/ pose_tracker_cb_finish
    \/ tf_to_pose_transporter_cb_enter
    \/ tf_to_pose_transporter_cb_finish
    \/ cancel_other

Next ==
    \/ AnyTick
    \/ \E v \in SupQs : StateCb(v)
    \/ Stop
    \/ Velocities
    \/ Goals
    \/ Recoveries
    \/ Trackers

Spec == Init /\ [][Next]_vars

\* Cartesian velocity control alone, with the control timer firing for ever
CartCmds == {EvThresh + 4, -(EvThresh + 4), 0}
NextCart ==
    \/ AnyTick
    \/ \E v \in SupQs : StateCb(v)
    \/ velocity_cb_enter
    \/ \E v \in CartCmds : velocity_cb_locked(v)

SpecCart == Init /\ [][NextCart]_vars /\ WF_vars(AnyTick)

\* joint velocity control alone, with the control timer firing for ever
JointCmds == {<<EvThresh + 4, 0>>, <<-(EvThresh + 4), 1>>, Zero}
NextJoint ==
    \/ AnyTick
    \/ \E v \in SupQs : StateCb(v)
    \/ joint_velocity_cb_enter
    \/ \E v \in JointCmds : joint_velocity_cb_locked(v)

SpecJoint == Init /\ [][NextJoint]_vars /\ WF_vars(AnyTick)

----------------------------------------------------------------------------
(* The trajectory collision checker on its own: a trajectory is given, the *)
(* checker is run on it                                                    *)

RECURSIVE HitsUpTo(_, _)
HitsUpTo(k, n) ==
    IF k = 0 THEN {{}}
    ELSE LET P == HitsUpTo(k - 1, n)
         IN  P \cup {h \cup {i} : h \in P, i \in 0..(n - 1)}

InitWalk ==
    /\ InitSupervisor
    /\ InitParts
    /\ req = NoRequest
    /\ scene = EmptyScene
    /\ timer = TimerInit
    /\ \E n \in 1..MaxN : \E h \in HitsUpTo(MaxHits, n) :
          walk = [NoWalk EXCEPT !.n = n, !.hits = h]

CheckTrajectory ==
    /\ ~walk.done
    /\ LET r == trajectory_collision_checker(walk.n, walk.hits)
       IN  walk' = [walk EXCEPT !.done = TRUE, !.go = r.go, !.checked = r.checked]
    /\ UNCHANGED <<executor, q, j_v, supVars, hist, req, scene, timer, partVars>>

NextWalk ==
    \/ CheckTrajectory

SpecWalk == InitWalk /\ [][NextWalk]_vars

----------------------------------------------------------------------------
(* The pose goal handler with the goal and the world spelt out: the pose   *)
(* asked for, the workspace parameter, whether traj_generator gives a      *)
(* valid trajectory and which of its samples are in collision              *)

\* samples of the generated trajectory (0, 1, 2) that are in collision
GoalHits == {{}, {1}, {2}}

\* the goals served: a pose inside the box with each answer of the later
\* checks, and each way of failing the workspace check
Inside == Pose("pose", <<1, 1, 1>>)
PoseRequests ==
    {[pose |-> Inside, workspace |-> Workspace("box"), valid |-> v, hits |-> h] :
        v \in BOOLEAN, h \in GoalHits}
    \cup
    {[pose |-> Pose("pose", <<1, 1, 3>>), workspace |-> Workspace(w),
      valid |-> TRUE, hits |-> {}] : w \in {"box", "unset"}}
    \cup
    {[pose |-> Pose("none", <<0, 0, 0>>), workspace |-> Workspace("unset"),
      valid |-> TRUE, hits |-> {}],
     [pose |-> Inside, workspace |-> Workspace("bad_path"),
      valid |-> TRUE, hits |-> {}]}

\* what general_executor's checks answer for such a goal
GateFor(pose, workspace, valid, hits) ==
    IF ~pose_within_workspace(pose, workspace) THEN "workspace"
    ELSE IF ~valid THEN "invalid"
    ELSE IF ~trajectory_collision_checker(Len(TrajGen(Zero, Zero).s), hits).go
    THEN "collision"
    ELSE "ok"
GateOf(r) == GateFor(r.pose, r.workspace, r.valid, r.hits)

\* pose_cb up to the lock, serving a goal
PoseGoalEnter(r) ==
    /\ EnterUnchecked("pose", PreemptIfMoving(Cur))
    /\ req' = [state |-> "pending", pose |-> r.pose, workspace |-> r.workspace,
               valid |-> r.valid, hits |-> r.hits, goal |-> Zero]
    /\ UNCHANGED <<walk, scene, timer, partVars>>

\* pose_cb under the lock: goal is the IK solution for the pose
PoseGoalLocked(goal) ==
    /\ req.state = "pending"
    /\ pose_cb_under_lock(goal, GateOf(req))
    /\ req' = [req EXCEPT
                 !.goal = goal,
                 !.state = IF goal = q THEN "no_solution"
                           ELSE IF general_executor(Cur, q, "pose", goal, GateOf(req),
                                                    FALSE, FALSE).installed
                           THEN "accepted"
                           ELSE "refused"]
    /\ UNCHANGED <<walk, scene, timer, partVars>>

NextGate ==
    \/ AnyTick
    \/ \E v \in SupQs : StateCb(v)
    \/ Stop
    \/ velocity_cb_enter
    \/ \E v \in EvCmds : velocity_cb_locked(v)
    \/ \E r \in PoseRequests : PoseGoalEnter(r)
    \/ \E goal \in PoseGoals : PoseGoalLocked(goal)
    \/ Poll("pose")
    \/ recover_cb_call("invalid")

SpecGate == Init /\ [][NextGate]_vars

----------------------------------------------------------------------------
(* The ROS 2 drive: timer_callback on the worker threads of the            *)
(* MultiThreadedExecutor                                                   *)

SetThread(t, th) == [timer EXCEPT !.thread[t] = th]

\* the clock moves on
ClockTick ==
    /\ timer.now < MaxClock
    /\ timer' = [timer EXCEPT !.now = @ + 1]
    /\ UNCHANGED <<executor, q, j_v, supVars, hist, req, walk, scene, partVars>>

\* a free worker takes the timer when it is due (the reentrant group never
\* holds it back) and starts timer_callback: current_time = now;
\* dt = current_time - self.last_time
TimerTake(t) ==
    /\ timer.thread[t].pc = "idle"
    /\ timer.now >= timer.due
    /\ timer' = [SetThread(t, [pc |-> "step", current_time |-> timer.now,
                               dt |-> timer.now - timer.last_time])
                   EXCEPT !.due = @ + TimerPeriod]
    /\ UNCHANGED <<executor, q, j_v, supVars, hist, req, walk, scene, partVars>>

\* self.armer.step(dt, current_time): the control tick
TimerStep(t, errors, tf_ok) ==
    /\ timer.thread[t].pc = "step"
    /\ Set(TickBody(Cur, q, errors, tf_ok))
    /\ Op("tick")
    /\ timer' = SetThread(t, [timer.thread[t] EXCEPT !.pc = "write"])
    /\ UNCHANGED <<q, lock, pc, req, walk, scene, partVars>>

\* self.last_time = current_time, and the callback returns
TimerEnd(t) ==
    /\ timer.thread[t].pc = "write"
    /\ timer' = [SetThread(t, IdleThread)
                   EXCEPT !.last_time = timer.thread[t].current_time,
                          !.writes = Min(@ + 1, MaxClock)]
    /\ UNCHANGED <<executor, q, j_v, supVars, hist, req, walk, scene, partVars>>

NextTimer ==
    \/ ClockTick
    \/ \E t \in Threads : TimerTake(t)
    \/ \E t \in Threads, errors \in {0, 1}, tf_ok \in BOOLEAN : TimerStep(t, errors, tf_ok)
    \/ \E t \in Threads : TimerEnd(t)

SpecTimer == Init /\ [][NextTimer]_vars

----------------------------------------------------------------------------
(* The collision scene on its own: objects are added and removed, the arm  *)
(* moves, states are checked                                               *)

InitScene ==
    /\ InitSupervisor
    /\ InitParts
    /\ req = NoRequest
    /\ walk = NoWalk
    /\ timer = TimerInit
    /\ \E live \in Configs, adjacent \in [Configs -> BOOLEAN] :
          scene = Scene(live, adjacent)

SceneOnly == UNCHANGED <<executor, q, j_v, supVars, hist, req, walk, timer, partVars>>

\* the scene after a service call: what the handler made of it and what it
\* gave back: "success" or "failure" (the response), "none returned" (the
\* handler ends without a return statement), "raised" (an exception)
Answered(sc, resp) == [sc EXCEPT !.last = NoCheck, !.query = NoQuery, !.resp = resp]

\* add_collision_obj_cb: refused on a bad name, type or pose and on a name
\* in use without overwrite; overwrite pops the old dynamic object (a
\* KeyError when the name is a link's); then the object goes into both
\* dictionaries and the overlaps are characterised again
add_collision_obj_cb(name, shape, valid, overwrite) ==
    /\ scene' =
         IF ~valid \/ (name \in Keys(scene) /\ ~overwrite) THEN Answered(scene, "failure")
         ELSE IF name \in Keys(scene) /\ name \notin scene.dynamic
         THEN Answered(scene, "raised")
         ELSE characterise_collision_overlaps(
                Answered([scene EXCEPT
                   !.removal = IF name \in scene.dynamic THEN @ \cup {name} ELSE @,
                   !.dynamic = @ \cup {name},
                   !.objects = [k \in DOMAIN @ \cup {name} |->
                                   IF k = name THEN shape ELSE @[k]]], "success"))
    /\ SceneOnly

\* remove_collision_obj_cb: an empty name is refused; a name in
\* collision_dict is popped from dynamic_collision_dict first (a KeyError
\* when it is a link's), then from collision_dict, and the overlaps are
\* characterised again; for any other name the handler logs an error and
\* ends without a response
remove_collision_obj_cb(name) ==
    /\ scene' =
         IF name = "" THEN Answered(scene, "failure")
         ELSE IF name \notin Keys(scene) THEN Answered(scene, "none returned")
         ELSE IF name \notin scene.dynamic THEN Answered(scene, "raised")
         ELSE characterise_collision_overlaps(
                Answered([scene EXCEPT
                   !.removal = @ \cup {name},
                   !.dynamic = @ \ {name},
                   !.link_keys = @ \ {name},
                   !.objects = [k \in DOMAIN @ \ {name} |-> @[k]]], "success"))
    /\ SceneOnly

\* the arm moves to another configuration
SceneMove(c) ==
    /\ c # scene.live
    /\ scene' = [Answered(scene, "none") EXCEPT !.live = c]
    /\ SceneOnly

\* update_description_cb: refused on empty inputs or a description without
\* the gripper link; else the link tree is replaced, so that the links may
\* meet where they did not before, and nothing else is done about collisions
update_description_cb(valid, adjacent) ==
    /\ scene' = IF ~valid THEN Answered(scene, "failure")
                ELSE [Answered(scene, "success") EXCEPT !.adjacent = adjacent]
    /\ SceneOnly

\* calibrate_transform_cb on a known link: the overlaps are characterised
SceneCharacterise ==
    /\ scene' = characterise_collision_overlaps(Answered(scene, "none"))
    /\ SceneOnly

\* the same done by moving the robot itself to the state to check
SceneCheck_OnLive(c) ==
    /\ scene' = [scene EXCEPT
                   !.last = [at |-> c, go |-> check_collision_per_state(scene, c)],
                   !.query = NoQuery, !.resp = "none", !.live = c]
    /\ SceneOnly

\* check_collision_per_state(q = c): self.robot_ghost.q = q, then the check
SceneCheck(c) ==
    /\ scene' = [scene EXCEPT
                   !.last = [at |-> c, go |-> check_collision_per_state(scene, c)],
                   !.query = NoQuery, !.resp = "none", !.ghost = c]
    /\ SceneOnly

\* trajectory_collision_checker(traj): the samples in collision are those
\* whose per-state check fails; the ghost is left at the last sample the
\* walk checked, the first strided one in collision or else the last
SceneCheckTrajectory(traj) ==
    LET n == Len(traj)
        hits == {i \in 0..(n - 1) : ~check_collision_per_state(scene, traj[i + 1])}
        walked == {i \in 0..(n - 1) : i % StepValue(n) = 0}
        stop == IF walked \cap hits # {}
                THEN CHOOSE i \in walked \cap hits : \A j \in walked \cap hits : i <= j
                ELSE CHOOSE i \in walked : \A j \in walked : j <= i
    IN  /\ scene' = [scene EXCEPT
                       !.last = [at |-> "trajectory",
                                 go |-> trajectory_collision_checker(n, hits).go],
                       !.query = NoQuery, !.resp = "none", !.ghost = traj[stop + 1]]
        /\ SceneOnly

\* one query of the links in collision with a key, the robot being at c, by
\* get_links_in_collision (every hit) and by check_link_collision (first hit)
SceneQuery(target, ignore, links, c) ==
    /\ target \in Keys(scene)
    /\ scene' = [scene EXCEPT
                   !.last = NoCheck, !.resp = "none",
                   !.query = [target |-> target, ignore |-> ignore, links |-> links,
                              at |-> c,
                              out |-> get_links_in_collision(scene, target, ignore,
                                         {links[i] : i \in DOMAIN links}, c),
                              first |-> check_link_collision(scene, target, links,
                                                             ignore, c)]]
    /\ SceneOnly

NextScene ==
    \/ \E name \in Names, shape \in Shapes, valid \in BOOLEAN, overwrite \in BOOLEAN :
          add_collision_obj_cb(name, shape, valid, overwrite)
    \/ \E name \in Names \cup {""} : remove_collision_obj_cb(name)
    \/ \E c \in Configs : SceneMove(c)
    \/ \E valid \in BOOLEAN, adjacent \in [Configs -> BOOLEAN] :
          update_description_cb(valid, adjacent)
    \/ SceneCharacterise
    \/ \E c \in Configs : SceneCheck(c)
    \/ \E traj \in SeqsUpTo(Configs, 2) : SceneCheckTrajectory(traj)

SpecScene == InitScene /\ [][NextScene]_vars

----------------------------------------------------------------------------
(* Named poses: requests by name while the arm may be servoing to a pose   *)
(* for step_cb                                                             *)

InitNamed ==
    /\ InitSupervisor
    /\ req = NoRequest
    /\ walk = NoWalk
    /\ scene = EmptyScene
    /\ timer = TimerInit
    /\ kd = NoKd
    /\ safe = NoSafe
    /\ sliced = NoSliced
    /\ hw = NoHw
    /\ arm = NoArm
    /\ \E poses \in {NoPoses, [n \in {"ready"} |-> <<1, 3>>]} :
          named = Named(poses, "none", "", <<>>, FALSE)

NamedOnly == UNCHANGED <<executor, q, j_v, supVars, hist, req, walk, scene, timer,
                         kd, safe, sliced, hw, arm>>

\* named_pose_cb up to the lock: a motion in progress is preempted before
\* the name is looked up
NamedPoseEnter(name) ==
    /\ EnterUnchecked("named_pose", PreemptIfMoving(Cur))
    /\ named' = Named(named.poses, "named_pose", name, <<>>, FALSE)
    /\ UNCHANGED <<req, walk, scene, timer, kd, safe, sliced, hw, arm>>

\* named_pose_cb under the lock: an unknown name is answered by set_aborted
\* and the handler returns; a known one goes to general_executor, which
\* answers when the motion ends
NamedPoseLocked(gate) ==
    /\ named.kind = "named_pose"
    /\ LET known == named.name \in DOMAIN named.poses IN
          /\ named_pose_cb_under_lock(known,
                                      IF known THEN named.poses[named.name] ELSE Zero, gate)
          /\ named' = [named EXCEPT
                          !.kind = IF known THEN "moving" ELSE "named_pose_done",
                          !.results = IF known THEN <<>> ELSE <<"aborted">>]
    /\ UNCHANGED <<req, walk, scene, timer, kd, safe, sliced, hw, arm>>

\* named_pose_distance_cb: an unknown name is answered by set_aborted, and
\* the handler goes on to self.named_poses[goal.pose_name], a KeyError; a
\* known one is answered by set_succeeded, with success or not
named_pose_distance_cb(name, exceeded) ==
    /\ named' =
         IF name \notin DOMAIN named.poses
         THEN Named(named.poses, "named_pose_distance", name, <<"aborted">>, TRUE)
         ELSE Named(named.poses, "named_pose_distance", name,
                    <<IF exceeded THEN "succeeded" ELSE "succeeded, success=False">>, FALSE)
    /\ NamedOnly

\* add_named_pose_cb: the live joint positions are stored under the name
add_named_pose_cb(name, overwrite) ==
    /\ named' =
         IF name \in DOMAIN named.poses /\ ~overwrite
         THEN Named(named.poses, "add_named_pose", name, <<"failure">>, FALSE)
         ELSE Named([n \in DOMAIN named.poses \cup {name} |->
                        IF n = name THEN q ELSE named.poses[n]],
                    "add_named_pose", name, <<"success">>, FALSE)
    /\ NamedOnly

\* remove_named_pose_cb
remove_named_pose_cb(name) ==
    /\ named' =
         IF name \notin DOMAIN named.poses
         THEN Named(named.poses, "remove_named_pose", name, <<"failure">>, FALSE)
         ELSE Named([n \in DOMAIN named.poses \ {name} |-> named.poses[n]],
                    "remove_named_pose", name, <<"success">>, FALSE)
    /\ NamedOnly

NextNamed ==
    \/ AnyTick
    \/ \E v \in SupQs : StateCb(v)
    \/ step_cb_enter
    \/ \E goal \in GoalQs : step_cb_locked(goal, TRUE, TRUE)
    \/ \E v \in JvCmds, arrived \in BOOLEAN : step_cb_servo(v, arrived)
    \/ \E name \in PoseNames : NamedPoseEnter(name)
    \/ \E gate \in {"ok", "collision"} : NamedPoseLocked(gate)
    \/ Poll("named_pose")
    \/ \E name \in PoseNames, exceeded \in BOOLEAN : named_pose_distance_cb(name, exceeded)
    \/ \E name \in PoseNames, overwrite \in BOOLEAN : add_named_pose_cb(name, overwrite)
    \/ \E name \in PoseNames : remove_named_pose_cb(name)

SpecNamed == InitNamed /\ [][NextNamed]_vars

----------------------------------------------------------------------------
(* The window of safe states on its own: the arm moves through joint       *)
(* states that are all different, the n-th being <<n, 0>>, and each is     *)
(* recorded                                                                *)

NthState(n) == <<n, 0>>

SafeState ==
    /\ safe.calls < MaxCalls
    /\ safe' = set_safe_state(safe, NthState(safe.calls + 1))
    /\ UNCHANGED <<executor, q, j_v, supVars, hist, req, walk, scene, timer,
                   kd, named, sliced, hw, arm>>

NextSafe == SafeState

SpecSafe == Init /\ [][NextSafe]_vars

----------------------------------------------------------------------------
(* The window of links on its own: any chain, any two bounds *)

InitSliced ==
    /\ InitSupervisor
    /\ req = NoRequest
    /\ walk = NoWalk
    /\ scene = EmptyScene
    /\ timer = TimerInit
    /\ kd = NoKd
    /\ named = NoNamed
    /\ safe = NoSafe
    /\ hw = NoHw
    /\ arm = NoArm
    /\ \E n \in 1..MaxChain : \E start \in 0..n, stop \in 0..n :
          sliced = Sliced(n, start, stop)

\* update_link_collision_window is called, for the first time or again
UpdateWindow ==
    /\ sliced.state # "none"
    /\ sliced' = update_link_collision_window(sliced)
    /\ UNCHANGED <<executor, q, j_v, supVars, hist, req, walk, scene, timer,
                   kd, named, safe, hw, arm>>

NextSliced == UpdateWindow

SpecSliced == InitSliced /\ [][NextSliced]_vars

----------------------------------------------------------------------------
(* The nearest-neighbour query on its own: any placement, any query *)

InitKd ==
    /\ InitSupervisor
    /\ req = NoRequest
    /\ walk = NoWalk
    /\ scene = EmptyScene
    /\ timer = TimerInit
    /\ named = NoNamed
    /\ safe = NoSafe
    /\ sliced = NoSliced
    /\ hw = NoHw
    /\ arm = NoArm
    /\ \E objects \in SUBSET KdObjects, shaped \in SUBSET Links, origin \in Links,
          dim \in 1..DefaultDim :
          \E pos \in [Links \cup KdObjects -> Places],
             overlapped \in SUBSET ((Links \cup objects) \ {origin}) :
             /\ \A c \in KdObjects \ objects : pos[c] = 0
             /\ kd = KdQuestion(pos, objects, shaped, overlapped, origin, dim)

KdQuery ==
    /\ kd.state = "asked"
    /\ kd' \in query_kd_nn_collision_tree(kd)
    /\ UNCHANGED <<executor, q, j_v, supVars, hist, req, walk, scene, timer,
                   named, safe, sliced, hw, arm>>

NextKd == KdQuery

SpecKd == InitKd /\ [][NextKd]_vars

----------------------------------------------------------------------------
(* Queries of the links in collision, in a scene where a sphere comes and  *)
(* goes and the arm moves                                                  *)

NextQuery ==
    \/ \E shape \in Shapes : add_collision_obj_cb("sphere", shape, TRUE, FALSE)
    \/ remove_collision_obj_cb("sphere")
    \/ \E c \in Configs : SceneMove(c)
    \/ \E target \in Links \cup {"sphere"}, ignore \in SUBSET Links, links \in LinkLists :
          SceneQuery(target, ignore, links, scene.live)

SpecQuery == InitScene /\ [][NextQuery]_vars

----------------------------------------------------------------------------
(* The ros_control calls on their own, the service and the action server   *)
(* being there or not, answering or not, as the environment chooses at     *)
(* every second.                                                           *)

InitHw ==
    /\ InitSupervisor
    /\ req = NoRequest
    /\ walk = NoWalk
    /\ scene = EmptyScene
    /\ timer = TimerInit
    /\ kd = NoKd
    /\ named = NoNamed
    /\ safe = NoSafe
    /\ sliced = NoSliced
    /\ arm = NoArm
    /\ \E names \in BOOLEAN : hw = [NoHw EXCEPT !.names = names]

HwOnly == UNCHANGED <<executor, q, j_v, supVars, hist, req, walk, scene, timer,
                      kd, named, safe, sliced, arm>>

\* general_executor reaches its hardware branch
HwStart ==
    /\ hw.pc = "idle"
    /\ hw' = controller_select([hw EXCEPT !.result = "none"], 1, JOINT_TRAJECTORY)
    /\ HwOnly

HwWaitForService(available) ==
    /\ hw.pc = "wait_for_service"
    /\ hw' = wait_for_service(hw, available)
    /\ HwOnly

HwService(answer) ==
    /\ hw.pc = "service"
    /\ hw' = service(hw, answer)
    /\ HwOnly

HwWaitForServer(available) ==
    /\ hw.pc = "wait_for_server"
    /\ hw' = wait_for_server(hw, available)
    /\ HwOnly

HwWaitForResult(answer) ==
    /\ hw.pc = "wait_for_result"
    /\ hw' = wait_for_result(hw, answer)
    /\ HwOnly

NextHw ==
    \/ HwStart
    \/ \E available \in BOOLEAN : HwWaitForService(available)
    \/ \E answer \in {"none", "ok", "refused", "exception"} : HwService(answer)
    \/ \E available \in BOOLEAN : HwWaitForServer(available)
    \/ \E answer \in {"none", "ok", "error"} : HwWaitForResult(answer)

\* a second passes with nothing new from the service or the server
HwSecond ==
    \/ HwWaitForService(FALSE)
    \/ HwService("none")
    \/ HwWaitForServer(FALSE)
    \/ HwWaitForResult("none")

\* time passes; whether the service or the server ever turns up or answers
\* is left to them
SpecHw == InitHw /\ [][NextHw]_vars /\ WF_vars(HwSecond)

----------------------------------------------------------------------------
(* The supervisor with its recovery actions invoked in ERROR only: recover, *)
(* recover_move and home arrive while the mode is ERROR.  Beside them run   *)
(* the tick, the joint-state feed, the stop service, velocity commands and  *)
(* the tf-to-pose action with its cancellation.                             *)

NextRecover ==
    \/ AnyTick
    \/ \E v \in SupQs : StateCb(v)
    \/ Stop
    \/ velocity_cb_enter
    \/ \E v \in EvCmds : velocity_cb_locked(v)
    \/ mode = "ERROR" /\ home_cb_enter
    \/ \E gate \in Gates : home_cb_locked(gate)
    \/ \E k \in RecoveryKinds : Poll(k)
    \/ mode = "ERROR" /\ \E gate \in Gates : recover_cb_call(gate)
    \/ mode = "ERROR" /\ \E gate \in Gates : recover_move_cb_call(gate)
    \/ tf_to_pose_transporter_cb_enter
    \/ tf_to_pose_transporter_cb_finish
    \/ cancel_other

SpecRecover == Init /\ [][NextRecover]_vars

----------------------------------------------------------------------------
(* Armer (armer.py) on its own: goals arrive, the stop service and the     *)
(* action servers' preempt callbacks call preempt at any time              *)

ArmOnly == UNCHANGED <<executor, q, j_v, supVars, hist, req, walk, scene, timer,
                       kd, named, safe, sliced, hw>>

\* the stop service, or a goal preempted by its client
ArmPreempt ==
    /\ arm' = Armer_preempt(arm)
    /\ ArmOnly

ArmGoalEnter(h) ==
    /\ arm.pc[h] = "idle"
    /\ arm' = goal_cb_enter(arm, h)
    /\ ArmOnly

ArmGoalLocked(h, n) ==
    /\ arm.pc[h] = "lock"
    /\ arm.lock = "free"
    /\ arm' = traj_move_begin(arm, h, n)
    /\ ArmOnly

ArmMove(h, reached) ==
    /\ arm.pc[h] = "move"
    /\ arm' = traj_move_pass(arm, h, reached)
    /\ ArmOnly

ArmEnd(h) ==
    /\ arm.pc[h] = "end"
    /\ arm' = traj_move_end(arm, h)
    /\ ArmOnly

NextArm ==
    \/ ArmPreempt
    \/ \E h \in ArmGoals : ArmGoalEnter(h)
    \/ \E h \in ArmGoals, n \in 1..MaxWaypoints : ArmGoalLocked(h, n)
    \/ \E h \in ArmGoals, reached \in BOOLEAN : ArmMove(h, reached)
    \/ \E h \in ArmGoals : ArmEnd(h)

SpecArm == Init /\ [][NextArm]_vars

----------------------------------------------------------------------------
(* The registries of the collision scene on their own: objects are added,  *)
(* removed and loaded from a scene file                                    *)

\* a scene file: its keys in the order of the file, each with the shape it
\* describes and whether the loader builds that shape type (sphere, cylinder,
\* cuboid) or stops at it (mesh, anything else); the empty file stands for
\* a path that does not exist or a file with nothing in it
LoadShapes == {[c \in Configs |-> {}], [c \in Configs |-> {"A"}]}
Entries == [name : Names, shape : LoadShapes, built : BOOLEAN]
SceneFiles ==
    {f \in SeqsUpTo(Entries, 2) :
        \A i \in DOMAIN f, j \in DOMAIN f : f[i].name = f[j].name => i = j}

\* for key, value in config.items(): both dictionaries take the key, with
\* no test of the key; a shape type that is not built ends the loop
RECURSIVE LoadEntries(_, _, _)
LoadEntries(sc, file, i) ==
    IF i > Len(file) \/ ~file[i].built THEN sc
    ELSE LoadEntries(
            [sc EXCEPT !.dynamic = @ \cup {file[i].name},
                       !.objects = [k \in DOMAIN @ \cup {file[i].name} |->
                                       IF k = file[i].name THEN file[i].shape ELSE @[k]]],
            file, i + 1)

\* load_collision_scene_config: the entries are loaded and the overlaps
\* characterised again; the function has no return statement
load_collision_scene_config(sc, file) ==
    IF file = <<>> THEN sc
    ELSE characterise_collision_overlaps(LoadEntries(sc, file, 1))

\* load_collision_config_path_cb: success is the value returned by
\* load_collision_scene_config, which is None
load_collision_config_path_cb(file) ==
    /\ scene' = Answered(load_collision_scene_config(scene, file), "failure")
    /\ SceneOnly

NextLoad ==
    \/ \E name \in Names, shape \in LoadShapes, valid \in BOOLEAN, overwrite \in BOOLEAN :
          add_collision_obj_cb(name, shape, valid, overwrite)
    \/ \E name \in Names \cup {""} : remove_collision_obj_cb(name)
    \/ \E file \in SceneFiles : load_collision_config_path_cb(file)

SpecLoad == InitScene /\ [][NextLoad]_vars

----------------------------------------------------------------------------
(* Properties of the supervisor, checked under Spec and SpecCart *)

\* this step is a recovery action completing: recover, recover_move or home
RecoveryStep == hist'.op = "recovered"

\* C1: once the mode is ERROR, every step that is not the completion of a
\* recovery action (recover, recover_move, home) leaves it ERROR: ticks,
\* velocity commands, guarded velocity, goal handlers and the preempt
\* variants never move ERROR to JOINTS or CARTESIAN.
C1_ErrorSticky ==
    [][(mode = "ERROR" /\ mode' # "ERROR") => RecoveryStep]_vars

\* the motion-accepting commands with a discrete goal
GoalCommands == {"pose", "joint_pose", "named_pose", "step"}

\* this step installs a velocity command from a motion-accepting command
InstallsVelocity == hist'.op \in {"vel_move", "guarded_move", "joint_vel", "servo"}

\* this step installs a TrajectoryExecutor for a motion-accepting command
InstallsGoal == \E k \in GoalCommands : pc[k] = "lock" /\ pc'[k] = "poll"

\* C2: while the mode is ERROR no motion-accepting command (Cartesian
\* velocity, joint velocity, servo, guarded velocity, pose, joint pose, named
\* pose, step) installs a velocity command or a TrajectoryExecutor.
C2_ErrorRefuses ==
    [][mode = "ERROR" => ~(InstallsVelocity \/ InstallsGoal)]_vars

\* the handler that installed the executor is in its poll loop and the
\* executor is still running
Executing ==
    /\ executor.id \in PollKinds
    /\ pc[executor.id] = "poll"
    /\ ~is_finished(executor, q, DefaultCutoff).finished

\* handler k installs an executor in this step
Installs(k) == pc[k] # "poll" /\ pc'[k] = "poll"

NewRequests == {"velocity", "pose", "joint_pose", "named_pose", "home"}
GoalRequests == {"pose", "joint_pose", "named_pose", "home"}
RequestArrives(k) == pc[k] = "idle" /\ pc'[k] # "idle"

StaleTick == hist'.op \in {"tick_decayed", "tick_zeroed"}

\* C6: in CARTESIAN mode every fault-free tick that finds the command older
\* than the staleness window shrinks a non-zero e_v, and ends in JOINTS
\* exactly when e_v is then zero; and from CARTESIAN with a stale command
\* the supervisor reaches JOINTS with e_v = 0, unless the command is
\* refreshed or a fault puts it in ERROR first.
C6_DecayToJoints ==
    /\ [][StaleTick =>
            /\ mode = "CARTESIAN"
            /\ (e_v # 0 => Abs(e_v') < Abs(e_v))
            /\ mode' = (IF e_v' = 0 THEN "JOINTS" ELSE "CARTESIAN")]_vars
    /\ (mode = "CARTESIAN" /\ Stale(Cur))
          ~> \/ (hist.op = "tick_zeroed" /\ mode = "JOINTS" /\ e_v = 0)
             \/ age = 0
             \/ mode = "ERROR"

C6_Witness ==
    /\ hist.op = "tick_zeroed"
    /\ mode = "JOINTS"
    /\ e_v = 0
    /\ j_v = Zero

----------------------------------------------------------------------------
(* Properties of the executor, checked under SpecExec *)

\* C8: once abort() has been called (once or several times, in any executor
\* state, also after success), is_finished() returns true and is_succeeded()
\* false for every cutoff, and every step() returns the zero vector.
C8_AbortIdempotent ==
    hist.aborted =>
        /\ \A c \in Cutoffs :
              /\ is_finished(executor, q, c).finished
              /\ ~is_succeeded(is_finished(executor, q, c))
        /\ step(executor, q, DT).out = Zero
        /\ step(executor, q, DT).ex = executor
        /\ abort(executor) = executor
        /\ (hist.op = "step" => j_v = Zero)

\* a step() call has returned after abort()
C8_Witness ==
    /\ hist.aborted
    /\ hist.op = "step"
    /\ hist.calls >= 2
    /\ executor.time_step >= 1

\* the number of step(dt = 1) calls the trajectory declares: its duration
\* when time-parameterised, else its sample count
StepLimit(traj) == IF traj.istime THEN traj.t ELSE Len(traj.s)

\* C9: when the robot state follows the plan exactly and nobody aborts, after
\* at most StepLimit step() calls is_finished(cutoff) is true and
\* is_succeeded() is then true.
C9_Convergence ==
    (executor.id # "none" /\ hist.tracked /\ hist.calls >= StepLimit(executor.traj)) =>
        \A c \in Cutoffs :
            /\ is_finished(executor, q, c).finished
            /\ is_succeeded(is_finished(executor, q, c))

\* a three-sample trajectory tracked exactly, stepped to its last sample
C9_Witness ==
    /\ executor.id # "none"
    /\ hist.tracked
    /\ hist.op = "step"
    /\ Len(executor.traj.s) >= 3
    /\ hist.calls = StepLimit(executor.traj)
    /\ executor.time_step >= 2
    /\ executor.finished
    /\ executor.success

\* the progress value at which the trajectory is used up: its duration when
\* time-parameterised, else the index of its last sample
ProgressEnd(traj) == IF traj.istime THEN traj.t ELSE Len(traj.s) - 1

RunawayStep ==
    /\ hist'.op = "step"
    /\ executor.id # "none"
    /\ ~is_finished(executor, q, StepCutoff).finished
    /\ \E i \in DOMAIN q : Abs(ReqJp(executor)[i] - q[i]) > MaxDelta

\* C11: a step() that finds the largest component of (required position -
\* actual position) above 0.5 leaves the executor finished and not succeeded,
\* and an executor that is finished and not succeeded stays so under every
\* later call, is_finished answering true and is_succeeded false.
C11_Runaway ==
    [][/\ RunawayStep => (executor'.finished /\ ~executor'.success)
       /\ (executor.finished /\ ~executor.success) =>
             /\ executor'.finished /\ ~executor'.success
             /\ \A c \in Cutoffs :
                   /\ is_finished(executor', q', c).finished
                   /\ ~is_succeeded(is_finished(executor', q', c))]_vars

\* step() has flagged a runaway: finished without success and without abort()
C11_Witness ==
    /\ hist.op = "step"
    /\ ~hist.aborted
    /\ executor.id # "none"
    /\ executor.finished
    /\ ~executor.success
    /\ executor.time_step >= 1

----------------------------------------------------------------------------
(* Properties of the trajectory collision checker (SpecWalk) *)

\* the indices 0, stride, 2*stride, ... of a trajectory of n samples
Strided(n) == {i \in 0..(n - 1) : i % StepValue(n) = 0}
StridedHits == Strided(walk.n) \cap walk.hits

C16_AboutTen == walk.done => walk.checked <= StepThresh + StepThresh \div 2

\* C16 (amended): for every trajectory length the strided walk evaluates
\* fewer than 20 states (at most 2 * 10 - 1, reached by 19 samples).
C16_WalkBound == walk.done => walk.checked <= 2 * StepThresh - 1

C16_Witness == walk.done /\ walk.n = 2 * StepThresh - 1 /\ walk.checked = walk.n

----------------------------------------------------------------------------
(* Properties of general_executor's gates (SpecGate) *)

\* a pose whose position lies outside the box of a configured workspace
OutsideBox(pose, workspace) ==
    /\ pose.kind = "pose"
    /\ workspace.kind = "box"
    /\ \E i \in 1..3 : \/ pose.position[i] < workspace.min[i]
                       \/ pose.position[i] > workspace.max[i]

\* the step in which pose_cb, under the lock, deals with the goal it serves
ServesGoal == req.state = "pending" /\ req'.state # "pending"

\* C12: general_executor called with a pose outside the configured workspace
\* and workspace_ignore = False returns failure and leaves the supervisor as
\* it was: in every reachable state, for every target and both values of
\* collision_ignore, the call installs nothing and returns the state it was
\* given; and when pose_cb serves such a goal the step ends refused with
\* ControlMode, the joint velocity command and the safety flags unchanged and
\* no executor left (the handler's own clean-up sets executor = None).
C12_WorkspaceGate ==
    /\ [](\A pose \in Poses, workspace \in Workspaces, goal \in PoseGoals,
             valid \in BOOLEAN, hits \in GoalHits, ci \in BOOLEAN :
             OutsideBox(pose, workspace) =>
                 LET r == general_executor(Cur, q, "pose", goal,
                              GateFor(pose, workspace, valid, hits), FALSE, ci)
                 IN  ~r.installed /\ r.st = Cur)
    /\ [][(ServesGoal /\ OutsideBox(req.pose, req.workspace)) =>
             /\ req'.state \in {"refused", "no_solution"}
             /\ mode' = mode /\ j_v' = j_v /\ e_v' = e_v /\ flags' = flags
             /\ preempted' = preempted
             /\ executor' = NoExecutor]_vars

C12_Witness ==
    /\ req.state = "refused"
    /\ OutsideBox(req.pose, req.workspace)
    /\ req.goal # q


\* C13: in every supervisor state -- any ControlMode, any value of preempted
\* -- general_executor called with a target at or below the singularity
\* threshold returns failure, installs no executor and leaves ControlMode
\* unchanged.
C13_SingularityGate ==
    [][(ServesGoal /\ req'.state # "no_solution" /\ SingularAt(req'.goal)) =>
          /\ req'.state = "refused"
          /\ executor'.id # "pose"
          /\ mode' = mode]_vars

\* the collision check's answer for the goal served
NotClear(r) == ~trajectory_collision_checker(Len(TrajGen(Zero, Zero).s), r.hits).go

\* C14: when the trajectory collision check reports the trajectory not clear
\* (collision_ignore being False, as it is for a pose goal), the call fails
\* and no executor is started for that goal, then or later.
C14_CollisionGate ==
    /\ [][(ServesGoal /\ NotClear(req)) =>
             /\ req'.state \in {"refused", "no_solution"}
             /\ executor' = NoExecutor]_vars
    /\ []((req.state = "refused" /\ NotClear(req)) => executor.id # "pose")

C14_Witness ==
    /\ req.state = "refused"
    /\ NotClear(req) /\ req.valid
    /\ pose_within_workspace(req.pose, req.workspace)
    /\ ~SingularAt(req.goal)

----------------------------------------------------------------------------
(* Properties of the drive (SpecTimer) *)

InCallback == {t \in Threads : timer.thread[t].pc # "idle"}

\* C17: control ticks are strictly sequential -- no two executions of the
\* per-tick step overlap, and a tick that starts sees the last_time written
\* by the tick before it (every tick taken so far has written it).
C17_SequentialTicks ==
    /\ Cardinality(InCallback) <= 1
    /\ \A t \in InCallback :
          timer.thread[t].dt = timer.thread[t].current_time - timer.last_time

----------------------------------------------------------------------------
(* Properties of the locking discipline (Spec) *)

\* steps of the control tick and of the stop service
LockFreeOps == {"tick_fault", "tick_decayed", "tick_zeroed", "stop"}

\* C18: every mutation of the shared resources happens while the per-robot
\* lock is held, by the tick as well as by every handler: a step of the tick
\* or of the stop service that changes ControlMode, the executor (its
\* reference or its state) or the joint velocity command finds the lock held.
C18_MutationsUnderLock ==
    [][(/\ hist'.op \in LockFreeOps
        /\ (mode' # mode \/ executor' # executor \/ j_v' # j_v \/ e_v' # e_v))
          => lock # "free"]_vars

DiscreteGoals == {"pose", "joint_pose", "named_pose", "home"}

----------------------------------------------------------------------------
(* Properties of the collision scene (SpecScene) *)

Overlaps(k) == IF k \in DOMAIN scene.overlapped THEN scene.overlapped[k] ELSE {}

\* links A and B are excluded from each other by the overlap lists
Excluded == "B" \in Overlaps("A") /\ "A" \in Overlaps("B")

\* a dynamic sphere is registered that intersects only B at configuration q
SphereOnlyB ==
    /\ "sphere" \in DOMAIN scene.objects
    /\ scene.objects["sphere"]["q"] = {"B"}

\* the state check at q has just been made on the scene as it is
CheckedAtQ == scene.last.at = "q"

\* C20 (as stated): with A and B excluded from each other, after a sphere
\* that intersects only B at q is added the state check at q reports a
\* collision.
C20_SphereReported ==
    (CheckedAtQ /\ Excluded /\ SphereOnlyB) => ~scene.last.go

\* C20 (amended): with A and B excluded from each other, after a sphere that
\* intersects only B at q is added the state check at q reports a collision
\* exactly when B is not on the sphere's own overlap list, that is when the
\* sphere did not intersect B where the arm stood at the last
\* characterisation; after the sphere is removed (no dynamic object left) the
\* check at q reports no collision.
C20_SphereReportedUnlessOverlapped ==
    (CheckedAtQ /\ Excluded) =>
        /\ SphereOnlyB => (~scene.last.go <=> "B" \notin Overlaps("sphere"))
        /\ ("sphere" \in scene.removal /\ scene.dynamic = {}) => scene.last.go

C20_Witness ==
    /\ CheckedAtQ /\ Excluded /\ SphereOnlyB
    /\ "B" \notin Overlaps("sphere")
    /\ ~scene.last.go
    /\ scene.adjacent["q"]

----------------------------------------------------------------------------
(* Queries of the links in collision, checked under SpecQuery *)

LinksOf(l) == {l[i] : i \in DOMAIN l}
Queried == scene.query.target # "none"

\* the answers to the query in hand never name the target or an ignored link
NeverExcluded ==
    LET u == scene.query IN
        /\ u.out \cap (u.ignore \cup {u.target}) = {}
        /\ u.first.collided => u.first.link \notin u.ignore \cup {u.target}

\* a collision that the query in hand reported is reported again for the
\* list more, which holds the links of the query and maybe others
StillReported(more) ==
    LET u == scene.query IN
        /\ u.out # {} =>
              get_links_in_collision(scene, u.target, u.ignore, LinksOf(more), u.at) # {}
        /\ u.first.collided =>
              check_link_collision(scene, u.target, more, u.ignore, u.at).collided

\* C21 (as stated): with the target, the shapes and the ignore list fixed, a
\* collision reported for a list of candidate links is reported for every list
\* that holds those links and more, and no reported link is the target or a
\* link of the ignore list
C21_QueryMonotone ==
    Queried =>
        /\ NeverExcluded
        /\ \A more \in LinkLists :
              LinksOf(scene.query.links) \subseteq LinksOf(more) => StillReported(more)

\* C21 (amended): the same for a list of candidates that names at least one
\* link; an empty list makes get_links_in_collision look at every link of the
\* robot, so a list of one link can report less than the empty one
C21_QueryMonotoneGiven ==
    Queried =>
        /\ NeverExcluded
        /\ \A more \in LinkLists :
              /\ scene.query.links # <<>>
              /\ LinksOf(scene.query.links) \subseteq LinksOf(more)
              => StillReported(more)

\* a sphere is queried against one link, ignoring the other, and is found to
\* touch it; the longer lists hold the ignored link too
C21_Witness ==
    /\ Queried
    /\ scene.query.target = "sphere"
    /\ scene.query.links = <<"A">>
    /\ scene.query.ignore = {"B"}
    /\ scene.query.out = {"A"}
    /\ scene.query.first.collided
    /\ "B" \in scene.objects["sphere"][scene.query.at]

----------------------------------------------------------------------------
(* The overlap graph, checked under SpecScene *)

\* the overlap graphs that may be on record for the keys of the scene
OverlapGraphs == {NoOverlaps} \cup [Keys(scene) -> SUBSET Links]

----------------------------------------------------------------------------
(* The nearest-neighbour query, checked under SpecKd *)

\* how far the link or object c is from the origin link of the query
DistFromOrigin(c) == Abs(kd.pos[c] - kd.pos[kd.origin])
Returned == {kd.out[i] : i \in 1..Len(kd.out)}
FewerThanDim == Cardinality(Eligible(kd)) <= kd.dim

\* the parts of C23 about which links are returned
C23_CountAndSet ==
    (kd.state = "done" /\ ~kd.raised) =>
        /\ Len(kd.out) = Cardinality(Returned)
        /\ Returned \subseteq Eligible(kd)
        /\ Len(kd.out) = IF FewerThanDim THEN Cardinality(Eligible(kd)) ELSE kd.dim
        /\ FewerThanDim => Returned = Eligible(kd)

\* C23: the query answers (it does not raise, whether the eligible links
\* and objects are many, fewer than dim or none); it returns dim of them, or
\* all when there are no more than dim; and when it returns all of them they
\* come nearest first, by their distance from the origin link
C23_NearestCandidates ==
    kd.state = "done" =>
        /\ ~kd.raised
        /\ C23_CountAndSet
        /\ FewerThanDim =>
              \A i, j \in 1..Len(kd.out) :
                  i < j => DistFromOrigin(kd.out[i]) <= DistFromOrigin(kd.out[j])

----------------------------------------------------------------------------
(* Removal of collision objects, checked under SpecScene *)

\* C24: a call to remove a name that is not a dynamic object, be it unknown
\* or the name of a link, leaves collision_dict, the dynamic objects and the
\* overlap graph as they were and is answered by a failure response: the
\* handler neither raises nor ends without a response
C24_RemoveUnknown ==
    [][\A name \in Names :
          (remove_collision_obj_cb(name) /\ name \notin scene.dynamic) =>
              /\ scene'.objects = scene.objects
              /\ scene'.dynamic = scene.dynamic
              /\ scene'.removal = scene.removal
              /\ scene'.overlapped = scene.overlapped
              /\ scene'.resp = "failure"]_vars

\* the part of C24 about the state: nothing is mutated
C24_RemoveUnknownNoOp ==
    [][\A name \in Names :
          (remove_collision_obj_cb(name) /\ name \notin scene.dynamic) =>
              /\ scene'.objects = scene.objects
              /\ scene'.dynamic = scene.dynamic
              /\ scene'.removal = scene.removal
              /\ scene'.overlapped = scene.overlapped
              /\ scene'.resp \in {"raised", "none returned"}]_vars

----------------------------------------------------------------------------
(* Named poses, checked under SpecNamed *)

Unknown(name) == name \notin DOMAIN named.poses
NothingMutated ==
    /\ named'.poses = named.poses
    /\ mode' = mode
    /\ executor' = executor
    /\ j_v' = j_v
OneFailure == Len(named'.results) = 1 /\ named'.results[1] \in {"aborted", "failure"}

\* C25: a request that names an unknown pose, to move to it, to remove it
\* or for its distance, changes neither the named poses nor the control mode,
\* the executor or the joint velocity command, and is answered by exactly one
\* failure result, the handler not going on to look the pose up
C25_UnknownNameRejected ==
    [][\A name \in PoseNames :
          /\ (Unknown(name) /\ NamedPoseEnter(name)) => NothingMutated
          /\ (named.kind = "named_pose" /\ Unknown(named.name) /\ NamedPoseLocked("ok"))
                => NothingMutated /\ OneFailure /\ ~named'.raised
          /\ (Unknown(name) /\ remove_named_pose_cb(name))
                => NothingMutated /\ OneFailure /\ ~named'.raised
          /\ (Unknown(name) /\ \E exceeded \in BOOLEAN : named_pose_distance_cb(name, exceeded))
                => NothingMutated /\ OneFailure /\ ~named'.raised]_vars

\* the part of C25 that holds: removal of an unknown name, and the move to
\* an unknown name once the handler has the lock
C25_UnknownNameRemoval ==
    [][\A name \in PoseNames :
          /\ (named.kind = "named_pose" /\ Unknown(named.name) /\ NamedPoseLocked("ok"))
                => NothingMutated /\ OneFailure /\ ~named'.raised
          /\ (Unknown(name) /\ remove_named_pose_cb(name))
                => NothingMutated /\ OneFailure /\ ~named'.raised
          /\ (Unknown(name) /\ \E exceeded \in BOOLEAN : named_pose_distance_cb(name, exceeded))
                => NothingMutated /\ OneFailure]_vars

----------------------------------------------------------------------------
(* The window of safe states, checked under SpecSafe *)

Kept == IF safe.calls < Capacity THEN safe.calls ELSE Capacity

\* C26: after n calls of set_safe_state the window still has 200 rows, the
\* pointer lies in 0..200, and the rows hold the last min(n, 200) joint
\* states in the order they were recorded, the oldest of them in row 0 (the
\* first row here) once the window is full; rows not yet written are zero
C26_SafeWindow ==
    /\ Len(safe.rows) <= Capacity
    /\ safe.p \in 0..Capacity
    /\ safe.p = Kept
    /\ \A i \in 1..Capacity :
          Row(safe, i) = IF i <= Kept THEN NthState(safe.calls - Kept + i) ELSE Zero

\* the window has wrapped: more states were recorded than it holds, and the
\* first row holds the oldest state kept, not the first state recorded
C26_Witness ==
    /\ safe.calls = Capacity + 3
    /\ Row(safe, 1) = NthState(4)
    /\ Row(safe, Capacity) = NthState(Capacity + 3)

----------------------------------------------------------------------------
(* The window of links, checked under SpecSliced *)

StartLink == sliced.collision_check_start_link
StopLink == sliced.collision_check_stop_link
Window == sliced.collision_sliced_links
WindowLinks == {Window[i] : i \in 1..Len(Window)}
ChainLen == Len(sliced.sorted_links)

\* the bounds are links of the chain and the start is not before the stop
\* (the links are numbered from the base)
ValidBounds == StartLink # 0 /\ StopLink # 0 /\ StartLink >= StopLink

\* the links of the window: those from the stop link to the start link, or
\* the whole chain when the bounds are invalid, each once
RightLinks ==
    /\ WindowLinks = IF ValidBounds THEN StopLink..StartLink ELSE 1..ChainLen
    /\ Len(Window) = Cardinality(WindowLinks)

\* C27: the window holds the links of the chain from the stop link to the
\* start link, both included, the stop link at index 0 and the others in the
\* order of the chain; with a bound that is not on the chain, or the start
\* before the stop, it holds the whole chain
C27_WindowFromStop ==
    sliced.state = "sliced" =>
        /\ RightLinks
        /\ ValidBounds => \A i \in 1..Len(Window) : Window[i] = StopLink + i - 1

\* the part of C27 that holds, with the order the code gives: the start link
\* at index 0, the stop link last
C27_WindowFromStart ==
    sliced.state = "sliced" =>
        /\ RightLinks
        /\ ValidBounds => \A i \in 1..Len(Window) : Window[i] = StartLink - i + 1

----------------------------------------------------------------------------
(* Look-ahead checks, checked under SpecScene *)

\* the step is a look-ahead check, of one state or of a trajectory
IsLookAhead == scene'.last.at # "none"

\* C28: a look-ahead collision check, of a state or of a trajectory, leaves
\* the joint state of the live robot, its joint velocity command and the
\* control mode as they are, and the shapes and overlaps too: of the robot
\* models only the ghost is written
C28_LookAheadOnGhost ==
    [][IsLookAhead =>
          /\ scene'.live = scene.live
          /\ q' = q /\ j_v' = j_v /\ mode' = mode
          /\ scene'.objects = scene.objects
          /\ scene'.overlapped = scene.overlapped
          /\ scene'.ghost \in Configs]_vars

\* a trajectory was checked and found in collision at a state the live robot
\* is not in; the ghost stands there
C28_Witness ==
    /\ scene.last.at = "trajectory"
    /\ ~scene.last.go
    /\ scene.ghost \in Configs \ {scene.live}

----------------------------------------------------------------------------
(* When the overlap graph is built, checked under SpecScene *)

Rebuilt == scene'.overlapped = characterise_collision_overlaps(scene').overlapped

\* C29: the overlap graph is built before any look-ahead check uses it, so
\* that a check finds an entry for every key of collision_dict; and after
\* every successful change of the link tree or of the dynamic objects the
\* graph is the one characterised from the scene as it then is
C29_OverlapsRebuilt ==
    /\ [](scene.last.at # "none" => DOMAIN scene.overlapped = Keys(scene))
    /\ [][scene'.resp = "success" => Rebuilt]_vars

\* the part of C29 that holds: the graph is rebuilt when a dynamic object is
\* added or removed
C29_RebuiltOnObjects ==
    [][\A name \in Names :
          /\ (scene'.resp = "success" /\ remove_collision_obj_cb(name)) => Rebuilt
          /\ (scene'.resp = "success" /\ \E shape \in Shapes, overwrite \in BOOLEAN :
                  add_collision_obj_cb(name, shape, TRUE, overwrite)) => Rebuilt]_vars

----------------------------------------------------------------------------
(* The decay of a joint velocity command, checked under SpecJoint *)

StaleJointCommand == executor.id = "none" /\ Stale(Cur) /\ j_v # Zero

\* C30: with no executor, a tick that finds a joint velocity command older
\* than the staleness window shrinks it as it would the Cartesian command:
\* a component at or above the threshold shrinks, one below it becomes zero;
\* so a stale command leads to a joint velocity of zero, unless it is
\* refreshed first
C30_JointDecayToZero ==
    /\ [][(StaleJointCommand /\ AnyTick) =>
            \A i \in DOMAIN j_v :
                /\ Abs(j_v[i]) >= EvThresh => Abs(j_v'[i]) < Abs(j_v[i])
                /\ Abs(j_v[i]) < EvThresh => j_v'[i] = 0]_vars
    /\ StaleJointCommand ~> (j_v = Zero \/ age = 0)

\* the part of C30 that holds: a stale command never grows, and shrinks
\* while it is at or above the threshold
C30_JointDecayShrinks ==
    [][(StaleJointCommand /\ AnyTick) =>
          \A i \in DOMAIN j_v :
              /\ Abs(j_v'[i]) <= Abs(j_v[i])
              /\ Abs(j_v[i]) >= EvThresh => Abs(j_v'[i]) < Abs(j_v[i])]_vars


----------------------------------------------------------------------------
(* The ros_control calls, checked under SpecHw *)

HwCalling == hw.pc # "idle"

\* C31: the controller-switch and hardware-trajectory calls always
\* terminate: whether or not the controller-manager service or the
\* trajectory action server ever becomes available or answers, a call that
\* has started returns, and no wait lasts longer than the timeout
C31_CallsTerminate ==
    /\ HwCalling ~> ~HwCalling
    /\ [](HwCalling => hw.waited <= ServerTimeout)

\* the part of C31 that holds: the wait for the action server is bounded
C31_ServerWaitBounded ==
    hw.pc = "wait_for_server" => hw.waited < ServerTimeout


----------------------------------------------------------------------------
(* The recovery actions, checked under SpecRecover *)

\* this step ends the handler of kind k, by return or by exception
Ends(k) == pc[k] # "idle" /\ pc'[k] = "idle"

\* C32: a recovery action (recover, recover_move or home) invoked in ERROR
\* mode ends with the mode JOINTS and the preempted flag cleared
C32_RecoveryResets ==
    [][\A k \in RecoveryKinds :
          Ends(k) => (mode' = "JOINTS" /\ ~preempted')]_vars

\* the same for the recovery actions that return
C32_RecoveryReturns ==
    [][(RecoveryStep /\ \E k \in RecoveryKinds : Ends(k))
          => (mode' = "JOINTS" /\ ~preempted')]_vars


\* the part of C32 that holds: recover, when it returns, always resets; home
\* and recover_move reset when they find the mode still ERROR at their end
C32_ResetsStillError ==
    [][\A k \in RecoveryKinds :
          (RecoveryStep /\ Ends(k) /\ (k = "recover" \/ mode = "ERROR"))
             => (mode' = "JOINTS" /\ ~preempted')]_vars


----------------------------------------------------------------------------
(* The answer of the per-state check, checked under SpecScene *)

\* at cfg some key of collision_dict meets a link that is neither the key
\* itself nor in the key's overlap list
HasCollision(sc, cfg) ==
    \E k \in Keys(sc), l \in Links :
        /\ l # k
        /\ IsCollided(sc, k, l, cfg)
        /\ k \in DOMAIN sc.overlapped => l \notin sc.overlapped[k]

\* a check was made and the ghost stands at the state that decided it
Checked == scene.last.at # "none" /\ scene.ghost \in Configs

----------------------------------------------------------------------------
(* The flags of the executor, checked under SpecExec *)

\* C34: in every reachable state of a TrajectoryExecutor succeeded implies
\* finished; finished is monotone: once is_finished() has returned true it
\* returns true forever, whatever the cutoff and the robot state; and after
\* finishing no call, step() included, advances the progress pointer
C34_ExecutorFlags ==
    /\ [](is_succeeded(executor) => executor.finished)
    /\ [][executor.finished =>
            /\ executor'.finished
            /\ \A c \in Cutoffs : is_finished(executor', q', c).finished
            /\ executor'.time_step = executor.time_step]_vars

\* step() has been called on an executor that had finished with success: of
\* the calls made on this sample-indexed plan at least one did not advance
C34_Witness ==
    /\ executor.id # "none"
    /\ ~executor.traj.istime
    /\ executor.finished /\ is_succeeded(executor)
    /\ hist.op = "step"
    /\ hist.calls > executor.time_step


----------------------------------------------------------------------------
(* The executor reference after a goal, checked under Spec *)

\* the handlers that run general_executor
ExecutorKinds == {"pose", "joint_pose", "named_pose", "home", "recover", "recover_move"}

C35_ClearedByCleanup ==
    [][\A k \in {"pose", "joint_pose", "home", "recover_move"} :
          Ends(k) => executor'.id = "none"]_vars


----------------------------------------------------------------------------
(* The executor reference during a goal, checked under Spec *)

C36_OnePollUnderLock ==
    \A k \in DiscreteGoals : pc[k] = "poll" =>
        /\ lock = k
        /\ \A j \in DiscreteGoals \ {k} : pc[j] # "poll"


----------------------------------------------------------------------------
(* Preempting the Armer of armer.py, checked under SpecArm *)

\* C37: a preempt only aborts motion that was in flight when it was issued:
\* a trajectory goal whose __traj_move starts after the preempt (a stop
\* issued while idle, or one that raced with the end of the previous motion)
\* is not aborted by that stale flag; it leaves its loops only with its
\* target reached or after a preempt issued since it began
C37_StalePreemptIgnored ==
    [][\A h \in ArmGoals :
          (arm.pc[h] = "move" /\ arm'.pc[h] = "end") =>
              (arm.left = 0 \/ arm.since)]_vars

\* the part of C37 that holds: a move that no preempt came before or during
\* runs to its target and succeeds, and a preempt during a move aborts it
C37_PreemptAborts ==
    [][\A h \in ArmGoals :
          /\ (arm.pc[h] = "move" /\ arm'.pc[h] = "end" /\ ~arm.preempted)
                => arm.left = 0
          /\ (arm.pc[h] = "move" /\ arm.since) => arm.preempted]_vars


----------------------------------------------------------------------------
(* The recovery target, checked under SpecSafe *)

\* recover_move_cb: q = self.q_safe_window[0]
RecoveryTarget == Row(safe, 1)

\* C38: the recovery target of recover_move_cb, slot 0 of the window of
\* safe states, is in every reachable state, also before the first append,
\* a joint vector that set_safe_state appended earlier, namely the oldest
\* one still kept
C38_TargetWasRecorded ==
    /\ \E n \in 1..safe.calls : RecoveryTarget = NthState(n)
    /\ RecoveryTarget = NthState(safe.calls - Kept + 1)

\* the part of C38 that holds: once a state has been appended
C38_TargetOldestKept ==
    safe.calls >= 1 =>
        /\ \E n \in 1..safe.calls : RecoveryTarget = NthState(n)
        /\ RecoveryTarget = NthState(safe.calls - Kept + 1)


----------------------------------------------------------------------------
(* The registries of the collision scene, checked under SpecLoad *)

\* every key of dynamic_collision_dict is a key of collision_dict, whose
\* entry is the shape of that object
DynamicRegistered == scene.dynamic \subseteq DOMAIN scene.objects

\* the entries collision_dict has for the robot's own links are there and
\* are the ones made from the description
LinkEntriesKept == scene.link_keys = Links /\ DOMAIN scene.objects \cap Links = {}

\* C39: after any sequence of add, remove and load operations every key of
\* the dynamic-object registry is a key of the collision dictionary, mapped
\* to that object's shape, and the collision-dictionary entries of the
\* robot's own links have been neither removed nor replaced
C39_RegistryConsistent == DynamicRegistered /\ LinkEntriesKept

\* the part of C39 that holds: the two registries agree on the dynamic
\* objects, and add and remove leave the links' entries alone
C39_RegistriesAgree ==
    /\ []DynamicRegistered
    /\ [][(LinkEntriesKept /\ ~\E file \in SceneFiles : load_collision_config_path_cb(file))
             => LinkEntriesKept']_vars


----------------------------------------------------------------------------
(* Calling update_link_collision_window again, checked under SpecSliced *)

\* both bounds name links of the chain
BoundsOnChain == StartLink # 0 /\ StopLink # 0

\* this call leaves the window and the chain as the call before left them
SameAsBefore ==
    /\ sliced'.collision_sliced_links = sliced.collision_sliced_links
    /\ sliced'.sorted_links = sliced.sorted_links

\* C40: update_link_collision_window never changes the order or the content
\* of sorted_links, the chain from the base to the end-effector, and is
\* idempotent: for any bounds, valid or not, a second call leaves the same
\* window and the same sorted_links as the first
C40_WindowIdempotent ==
    /\ [](sliced.state # "none" =>
             sliced.sorted_links = [i \in 1..ChainLen |-> i])
    /\ [][sliced.state = "sliced" => SameAsBefore]_vars

\* the part of C40 that holds: with both bounds on the chain
C40_IdempotentOnChain ==
    /\ [](sliced.state # "none" /\ BoundsOnChain =>
             sliced.sorted_links = [i \in 1..ChainLen |-> i])
    /\ [][sliced.state = "sliced" /\ BoundsOnChain => SameAsBefore]_vars

====
